---- MODULE Spec2Model ----
(***************************************************************************)
(* Dispatcher training game: the game phase state machine                  *)
(* (src/src/game/game_state.py), the wave / cascade scheduler              *)
(* (src/src/game/wave_engine.py) with the schema check of its scripts      *)
(* (src/src/game/llama_client.py), the coverage arithmetic                 *)
(* (src/src/game/rules.py) and the scoring (src/src/game/scoring.py).      *)
(*                                                                         *)
(* GameSpec runs the game state machine, WaveSpec the scheduler, CoverSpec *)
(* and ScoreSpec apply the pure coverage and scoring functions to          *)
(* arguments drawn by their initial states, OptSpec does the same for the  *)
(* placement optimizer (src/src/optimize_ambulance_placement.py).          *)
(*                                                                         *)
(* Python objects that the code copies or mutates (lists, dicts) live in   *)
(* heaps keyed by reference, so that aliasing between an input and a       *)
(* result is something a property can observe.                             *)
(*                                                                         *)
(* A cell id string is modelled by the list of its '_'-separated parts,    *)
(* "6050_-19543" being <<"6050", "-19543">>; int() and the f-string        *)
(* formatting of an index are modelled by ParseInt and FormatInt.          *)
(***************************************************************************)
EXTENDS Integers, Sequences, FiniteSets, TLC

VARIABLES
    \* ---- game_state.py ----
    scenario,       \* scenario.units: [patrol_count, ems_count]
    lists,          \* heap of Python lists: reference -> sequence of cell ids
    dicts,          \* heap of Python dicts: reference -> (cell id -> unit type)
    cur,            \* the caller's current GameState object
    arg,            \* the GameState object passed to the last mutator call
    before,         \* the field values of arg when that call started
    ret,            \* the GameState object the last call returned (NoObject if it raised)
    call,           \* the last call: [op, cell_id, unit_type, phase, outcome]
    \* ---- wave_engine.py ----
    wave_state,     \* the WaveState object (mutated in place by update_wave_state)
    wcall,          \* the last update_wave_state call and what it did
    hist,           \* what the scheduler has done so far (observation only)
    \* ---- rules.py, scoring.py, optimize_ambulance_placement.py ----
    score_in,       \* the arguments of the coverage / scoring functions
    score_out       \* the last function applied to them and what it returned

gvars == <<scenario, lists, dicts, cur, arg, before, ret, call>>
wvars == <<wave_state, wcall, hist>>
svars == <<score_in, score_out>>
vars == <<scenario, lists, dicts, cur, arg, before, ret, call, wave_state, wcall, hist,
          score_in, score_out>>

(***************************************************************************)
(* Bounds of the model.                                                    *)
(***************************************************************************)
MaxQuota == 2
MaxWaves == 2
MaxTime == 3
MaxRadius == 2
MaxPlacements == 3
MaxIncidents == 2
MaxAmbulances == 2

(***************************************************************************)
(* game_state.py: constants                                                *)
(***************************************************************************)
BRIEFING == "BRIEFING"
DEPLOY == "DEPLOY"
COMMIT == "COMMIT"
REVEAL == "REVEAL"
DEBRIEF == "DEBRIEF"

PATROL == "patrol"
EMS == "ems"

valid_phases == {BRIEFING, DEPLOY, COMMIT, REVEAL, DEBRIEF}

\* Arguments the caller may pass: the five phases and one unknown name, the two
\* unit types and one unknown type, and a few cell ids (game_state.py never
\* parses a cell id, so a malformed one is as good as any other).
PhaseArgs == valid_phases \cup {"INVALID"}
UnitTypeArgs == {PATROL, EMS, "fire"}
GameCells == {<<"0", "0">>, <<"0", "1">>, <<"x">>}

NoObject == [phase |-> "None"]
EmptyDict == <<>>

(***************************************************************************)
(* Heap helpers.                                                           *)
(***************************************************************************)
\* A reference no live object uses.
Fresh(heap) == CHOOSE r \in 1..(Cardinality(DOMAIN heap) + 1) : r \notin DOMAIN heap

\* The heap restricted to the references in keep (the rest is garbage).
Collect(heap, keep) == [r \in (DOMAIN heap) \cap keep |-> heap[r]]

ObjList(o) == IF o = NoObject THEN {} ELSE {o.placements}
ObjDict(o) == IF o = NoObject THEN {} ELSE {o.unit_types}

\* list.copy() / dict.copy() followed by the edits the code makes on the copy.
DictSet(d, k, v) == (k :> v) @@ d
\* (variant of DictDel: the entry of the removed cell stays in the map)
DictDel_kept(d, k) == d
DictDel(d, k) == [c \in (DOMAIN d) \ {k} |-> d[c]]
InList(x, s) == \E i \in 1..Len(s) : s[i] = x
\* list.remove(x): drops the first occurrence of x.
FirstIndex(x, s) == CHOOSE i \in 1..Len(s) : s[i] = x /\ \A j \in 1..(i - 1) : s[j] # x
ListRemove(s, x) == [i \in 1..(Len(s) - 1) |-> IF i < FirstIndex(x, s) THEN s[i] ELSE s[i + 1]]

\* The field values of a GameState object, lists and dicts read through the heap.
Deep(o) ==
    [phase |-> o.phase,
     placements |-> lists[o.placements],
     unit_types |-> dicts[o.unit_types],
     total_units |-> o.total_units,
     committed |-> o.committed]

CountType(d, t) == Cardinality({c \in DOMAIN d : d[c] = t})

(***************************************************************************)
(* game_state.py: the mutators.  Each takes the caller's current GameState *)
(* object, and either raises ValueError (the caller keeps its object) or   *)
(* returns a new object (which the caller then holds).                     *)
(***************************************************************************)
\* (variant of copy_ref: the copy is forgotten and the input's own list or dict is used)
copy_ref_alias(heap, r) == r

\* x.copy(): the reference of the new list or dict.
copy_ref(heap, r) == Fresh(heap)

\* The GameState(...) constructor call that ends every mutator.
GameState(phase, placements, unit_types, total_units, committed) ==
    [phase |-> phase,
     placements |-> placements,
     unit_types |-> unit_types,
     total_units |-> total_units,
     committed |-> committed]

Args(op, cell_id, unit_type, phase) ==
    [op |-> op, cell_id |-> cell_id, unit_type |-> unit_type, phase |-> phase]

\* The call raised: nothing was allocated, the caller keeps its object.
Raise(a, state, error) ==
    /\ cur' = cur
    /\ arg' = state
    /\ before' = Deep(state)
    /\ ret' = NoObject
    /\ call' = [op |-> a.op, cell_id |-> a.cell_id, unit_type |-> a.unit_type,
                phase |-> a.phase, outcome |-> "ValueError", error |-> error]
    /\ lists' = Collect(lists, ObjList(state))
    /\ dicts' = Collect(dicts, ObjDict(state))
    /\ UNCHANGED <<scenario, wvars, svars>>

\* The call returned new_state, whose list and dict hold new_list and new_dict.
Return(a, state, new_state, new_list, new_dict) ==
    /\ cur' = new_state
    /\ arg' = state
    /\ before' = Deep(state)
    /\ ret' = new_state
    /\ call' = [op |-> a.op, cell_id |-> a.cell_id, unit_type |-> a.unit_type,
                phase |-> a.phase, outcome |-> "ok", error |-> ""]
    /\ lists' = Collect((new_state.placements :> new_list) @@ lists,
                        ObjList(state) \cup ObjList(new_state))
    /\ dicts' = Collect((new_state.unit_types :> new_dict) @@ dicts,
                        ObjDict(state) \cup ObjDict(new_state))
    /\ UNCHANGED <<scenario, wvars, svars>>

start_new_game(units) ==
    GameState(BRIEFING, 1, 1, units.patrol_count + units.ems_count, FALSE)

\* (variant of set_phase_error: a committed state may no longer go back to BRIEFING or DEPLOY)
set_phase_error_guarded(state, phase) ==
    IF phase \notin valid_phases THEN "Invalid phase"
    ELSE IF state.committed /\ phase \in {BRIEFING, DEPLOY} THEN "Invalid transition"
    ELSE ""

\* The check of set_phase that raises, "" when none does.
set_phase_error(state, phase) ==
    IF phase \notin valid_phases THEN "Invalid phase" ELSE ""

set_phase(phase) ==
    LET state == cur
        a == Args("set_phase", <<>>, "", phase)
    IN  IF set_phase_error(state, phase) # ""
        THEN Raise(a, state, set_phase_error(state, phase))
        ELSE Return(a, state,
                    GameState(phase,
                              copy_ref(lists, state.placements),
                              copy_ref(dicts, state.unit_types),
                              state.total_units,
                              state.committed),
                    lists[state.placements],
                    dicts[state.unit_types])

\* (variant of add_placement_error: the uniqueness check is missing)
add_placement_error_no_unique(state, cell_id, unit_type) ==
    LET placements == lists[state.placements]
        unit_types == dicts[state.unit_types]
        patrol_count == CountType(unit_types, PATROL)
        ems_count == CountType(unit_types, EMS)
    IN  IF unit_type \notin {PATROL, EMS} THEN "Invalid unit_type"
        ELSE IF state.committed THEN "Cannot add placements after commit"
        ELSE IF Len(placements) >= state.total_units THEN "Cannot place more than total_units"
        ELSE IF unit_type = PATROL /\ patrol_count >= scenario.patrol_count
             THEN "Cannot place more patrol units"
        ELSE IF unit_type = EMS /\ ems_count >= scenario.ems_count
             THEN "Cannot place more EMS units"
        ELSE ""

\* (variant of add_placement_error: the EMS quota check compares with > instead of >=)
add_placement_error_off_by_one(state, cell_id, unit_type) ==
    LET placements == lists[state.placements]
        unit_types == dicts[state.unit_types]
        patrol_count == CountType(unit_types, PATROL)
        ems_count == CountType(unit_types, EMS)
    IN  IF unit_type \notin {PATROL, EMS} THEN "Invalid unit_type"
        ELSE IF state.committed THEN "Cannot add placements after commit"
        ELSE IF InList(cell_id, placements) THEN "Cell already has a unit placed"
        ELSE IF Len(placements) >= state.total_units THEN "Cannot place more than total_units"
        ELSE IF unit_type = PATROL /\ patrol_count >= scenario.patrol_count
             THEN "Cannot place more patrol units"
        ELSE IF unit_type = EMS /\ ems_count > scenario.ems_count
             THEN "Cannot place more EMS units"
        ELSE ""

\* The first check of add_placement that raises, "" when none does.
add_placement_error(state, cell_id, unit_type) ==
    LET placements == lists[state.placements]
        unit_types == dicts[state.unit_types]
        patrol_count == CountType(unit_types, PATROL)
        ems_count == CountType(unit_types, EMS)
    IN  IF unit_type \notin {PATROL, EMS} THEN "Invalid unit_type"
        ELSE IF state.committed THEN "Cannot add placements after commit"
        ELSE IF InList(cell_id, placements) THEN "Cell already has a unit placed"
        ELSE IF Len(placements) >= state.total_units THEN "Cannot place more than total_units"
        ELSE IF unit_type = PATROL /\ patrol_count >= scenario.patrol_count
             THEN "Cannot place more patrol units"
        ELSE IF unit_type = EMS /\ ems_count >= scenario.ems_count
             THEN "Cannot place more EMS units"
        ELSE ""

add_placement(cell_id, unit_type) ==
    LET state == cur
        a == Args("add_placement", cell_id, unit_type, "")
    IN  IF add_placement_error(state, cell_id, unit_type) # ""
        THEN Raise(a, state, add_placement_error(state, cell_id, unit_type))
        ELSE Return(a, state,
                    GameState(state.phase,
                              copy_ref(lists, state.placements),
                              copy_ref(dicts, state.unit_types),
                              state.total_units,
                              state.committed),
                    Append(lists[state.placements], cell_id),
                    DictSet(dicts[state.unit_types], cell_id, unit_type))

\* (variant of remove_placement_error: the committed check is missing)
remove_placement_error_no_lock(state, cell_id) ==
    IF ~InList(cell_id, lists[state.placements]) THEN "Cell has no unit to remove"
    ELSE ""

\* The first check of remove_placement that raises, "" when none does.
remove_placement_error(state, cell_id) ==
    IF state.committed THEN "Cannot remove placements after commit"
    ELSE IF ~InList(cell_id, lists[state.placements]) THEN "Cell has no unit to remove"
    ELSE ""

remove_placement(cell_id) ==
    LET state == cur
        a == Args("remove_placement", cell_id, "", "")
    IN  IF remove_placement_error(state, cell_id) # ""
        THEN Raise(a, state, remove_placement_error(state, cell_id))
        ELSE Return(a, state,
                    GameState(state.phase,
                              copy_ref(lists, state.placements),
                              copy_ref(dicts, state.unit_types),
                              state.total_units,
                              state.committed),
                    ListRemove(lists[state.placements], cell_id),
                    DictDel(dicts[state.unit_types], cell_id))

\* (variant of commit_error: the placement count is compared with > instead of !=)
commit_error_partial(state) ==
    IF state.phase # DEPLOY THEN "Can only commit in DEPLOY phase"
    ELSE IF Len(lists[state.placements]) > state.total_units
         THEN "Must place exactly total_units units before commit"
    ELSE IF state.committed THEN "Placements already committed"
    ELSE ""

\* The first check of commit that raises, "" when none does.
commit_error(state) ==
    IF state.phase # DEPLOY THEN "Can only commit in DEPLOY phase"
    ELSE IF Len(lists[state.placements]) # state.total_units
         THEN "Must place exactly total_units units before commit"
    ELSE IF state.committed THEN "Placements already committed"
    ELSE ""

commit ==
    LET state == cur
        a == Args("commit", <<>>, "", "")
    IN  IF commit_error(state) # ""
        THEN Raise(a, state, commit_error(state))
        ELSE Return(a, state,
                    GameState(state.phase,
                              copy_ref(lists, state.placements),
                              copy_ref(dicts, state.unit_types),
                              state.total_units,
                              TRUE),
                    lists[state.placements],
                    dicts[state.unit_types])

WaveIdle ==
    /\ wave_state = <<>>
    /\ wcall = <<>>
    /\ hist = <<>>

ScoreIdle ==
    /\ score_in = <<>>
    /\ score_out = <<>>

GameInit ==
    /\ scenario \in [patrol_count : 0..MaxQuota, ems_count : 0..MaxQuota]
    /\ cur = start_new_game(scenario)
    /\ lists = (1 :> <<>>)
    /\ dicts = (1 :> EmptyDict)
    /\ arg = NoObject
    /\ before = NoObject
    /\ ret = cur
    /\ call = [op |-> "start_new_game", cell_id |-> <<>>, unit_type |-> "",
               phase |-> "", outcome |-> "ok", error |-> ""]
    /\ WaveIdle
    /\ ScoreIdle

GameNext ==
    \/ \E phase \in PhaseArgs : set_phase(phase)
    \/ \E cell_id \in GameCells, unit_type \in UnitTypeArgs : add_placement(cell_id, unit_type)
    \/ \E cell_id \in GameCells : remove_placement(cell_id)
    \/ commit

GameSpec == GameInit /\ [][GameNext]_vars

(***************************************************************************)
(* Properties of the game state machine (checked under GameSpec).          *)
(***************************************************************************)
NoDuplicates(s) == \A i, j \in 1..Len(s) : s[i] = s[j] => i = j

\* The number of entries of the placement list whose unit type is t.
PlacedOfType(v, t) ==
    Cardinality({i \in 1..Len(v.placements) :
                    /\ v.placements[i] \in DOMAIN v.unit_types
                    /\ v.unit_types[v.placements[i]] = t})

Succeeded(op) == call.op = op /\ call.outcome = "ok"
Rejected(op) == call.op = op /\ call.outcome = "ValueError"

\* C1: in every reachable GameState the placement list holds no cell twice, the
\* placements of each unit type are at most that type's quota, and the number of
\* placements is at most total_units = patrol quota + EMS quota.
C1_PlacementInvariants ==
    LET v == Deep(cur)
    IN  /\ NoDuplicates(v.placements)
        /\ PlacedOfType(v, "patrol") <= scenario.patrol_count
        /\ PlacedOfType(v, "ems") <= scenario.ems_count
        /\ Len(v.placements) <= v.total_units
        /\ v.total_units = scenario.patrol_count + scenario.ems_count

\* A full deployment (both quotas used up) on which one more add was just rejected.
C1_Witness ==
    LET v == Deep(cur)
    IN  /\ Rejected("add_placement")
        /\ call.unit_type = "patrol"
        /\ call.cell_id \notin DOMAIN v.unit_types
        /\ Len(v.placements) = v.total_units
        /\ PlacedOfType(v, "patrol") = scenario.patrol_count
        /\ PlacedOfType(v, "ems") = scenario.ems_count
        /\ scenario.patrol_count > 0 /\ scenario.ems_count > 0

\* C2: commit succeeds exactly when the phase is DEPLOY, the placement count
\* equals total_units and committed is false; the result is the input with
\* committed = true and nothing else changed (the phase is still DEPLOY).
C2_CommitContract ==
    call.op = "commit" =>
        /\ call.outcome = "ok" <=>
              /\ before.phase = "DEPLOY"
              /\ Len(before.placements) = before.total_units
              /\ ~before.committed
        /\ call.outcome = "ok" =>
              /\ Deep(ret) = [before EXCEPT !.committed = TRUE]
              /\ Deep(ret).phase = "DEPLOY"
        /\ call.outcome # "ok" => call.outcome = "ValueError" /\ ret = NoObject

C2_Witness ==
    /\ Succeeded("commit")
    /\ Len(before.placements) = 3
    /\ cur.committed /\ cur.phase = "DEPLOY"

\* C3: add_placement succeeds exactly when the unit type is patrol or EMS, the
\* state is not committed, the cell is not yet placed, the placement count is
\* below total_units and the count of that unit type is below its quota; the
\* result then has the cell appended, mapped to the unit type, and the same
\* phase, capacity and committed flag.  In every other case it fails.
C3_AddContract ==
    call.op = "add_placement" =>
        LET quota == IF call.unit_type = "patrol" THEN scenario.patrol_count
                     ELSE scenario.ems_count
            accepted ==
                /\ call.unit_type \in {"patrol", "ems"}
                /\ ~before.committed
                /\ \A i \in 1..Len(before.placements) : before.placements[i] # call.cell_id
                /\ Len(before.placements) < before.total_units
                /\ PlacedOfType(before, call.unit_type) < quota
        IN  /\ call.outcome = "ok" <=> accepted
            /\ call.outcome # "ok" => call.outcome = "ValueError" /\ ret = NoObject
            /\ call.outcome = "ok" =>
                  /\ Deep(ret).placements = before.placements \o <<call.cell_id>>
                  /\ DOMAIN Deep(ret).unit_types = DOMAIN before.unit_types \cup {call.cell_id}
                  /\ Deep(ret).unit_types[call.cell_id] = call.unit_type
                  /\ \A c \in DOMAIN before.unit_types :
                        Deep(ret).unit_types[c] = before.unit_types[c]
                  /\ Deep(ret).phase = before.phase
                  /\ Deep(ret).total_units = before.total_units
                  /\ Deep(ret).committed = before.committed

\* An EMS unit added behind two earlier placements, using up the EMS quota.
C3_Witness ==
    /\ Succeeded("add_placement")
    /\ call.unit_type = "ems"
    /\ Len(before.placements) = 2
    /\ PlacedOfType(Deep(ret), "ems") = scenario.ems_count

\* C4: no mutator changes the state it is given.  After a rejected call the
\* caller's state has the field values it had before the call; after a
\* successful call the input still has them, and the result shares neither its
\* placement list nor its unit-type map with the input.
C4_CopyOnWrite ==
    arg # NoObject =>
        /\ Deep(arg) = before
        /\ call.outcome = "ValueError" => cur = arg /\ Deep(cur) = before /\ ret = NoObject
        /\ call.outcome = "ok" =>
              /\ ret.placements # arg.placements
              /\ ret.unit_types # arg.unit_types

\* A successful remove whose input still holds the removed cell.
C4_Witness ==
    /\ Succeeded("remove_placement")
    /\ Len(Deep(arg).placements) = 2
    /\ Len(Deep(ret).placements) = 1
    /\ call.cell_id \in DOMAIN Deep(arg).unit_types
    /\ call.cell_id \notin DOMAIN Deep(ret).unit_types

\* C5: commit is a permanent lock: from a state with committed = true every
\* mutator call, accepted or rejected, leaves the caller with committed = true
\* and the same placement list and unit-type map, whatever the phase.
C5_CommitLock ==
    [][cur.committed =>
          /\ cur'.committed
          /\ lists'[cur'.placements] = lists[cur.placements]
          /\ dicts'[cur'.unit_types] = dicts[cur.unit_types]]_vars

\* A committed state moved back to BRIEFING, on which a remove was then rejected.
C5_Witness ==
    /\ cur.committed
    /\ cur.phase = "BRIEFING"
    /\ Rejected("remove_placement")
    /\ call.cell_id \in DOMAIN Deep(cur).unit_types

\* C6: set_phase succeeds from any state exactly when the target is one of the
\* five phase names, and the result differs from the input only in its phase.
C6_SetPhaseContract ==
    call.op = "set_phase" =>
        /\ call.outcome = "ok" <=>
              call.phase \in {"BRIEFING", "DEPLOY", "COMMIT", "REVEAL", "DEBRIEF"}
        /\ call.outcome # "ok" => call.outcome = "ValueError" /\ ret = NoObject
        /\ call.outcome = "ok" => Deep(ret) = [before EXCEPT !.phase = call.phase]

\* A committed state in DEBRIEF moved back to DEPLOY.
C6_Witness ==
    /\ Succeeded("set_phase")
    /\ before.phase = "DEBRIEF"
    /\ before.committed
    /\ cur.phase = "DEPLOY"

(***************************************************************************)
(* rules.py: cell ids and coverage.                                        *)
(***************************************************************************)
\* The grid indices of the cells the model places units and incidents in, and
\* those of every cell a coverage set of radius at most MaxRadius + 1 can hold.
PlacedIndices == -1..2
GridIndices == (-1 - (MaxRadius + 1))..(2 + (MaxRadius + 1))

\* int(s) for the index strings that occur: the decimal string of an index is
\* that index; int() also accepts leading zeros, so "01" is 1; a string outside
\* the table is not a number (ValueError).
IntLiteral ==
    [s \in {ToString(i) : i \in GridIndices} |-> CHOOSE i \in GridIndices : ToString(i) = s]
        @@ ("01" :> 1) @@ ("100" :> 100) @@ ("-200" :> -200) @@ ("-205" :> -205)
IsIntLiteral(s) == s \in DOMAIN IntLiteral
ParseInt(s) == IntLiteral[s]
\* f"{i}": the canonical decimal string of an index.
FormatInt(i) == ToString(i)

Abs(x) == IF x < 0 THEN -x ELSE x

\* The error get_covered_cells raises for cell_id, "" when it raises none.
get_covered_cells_error(cell_id) ==
    IF Len(cell_id) # 2 THEN "ValueError"
    ELSE IF ~IsIntLiteral(cell_id[1]) \/ ~IsIntLiteral(cell_id[2]) THEN "ValueError"
    ELSE ""

\* (variant of within_radius: only the cells exactly radius steps away)
within_radius_ring(lat_offset, lon_offset, radius) ==
    Abs(lat_offset) + Abs(lon_offset) = radius

\* (variant of within_radius: a square, not a taxicab disk)
within_radius_square(lat_offset, lon_offset, radius) ==
    Abs(lat_offset) <= radius /\ Abs(lon_offset) <= radius

\* (variant of within_radius: range(-radius, radius), the last offset left out)
within_radius_open(lat_offset, lon_offset, radius) ==
    /\ Abs(lat_offset) + Abs(lon_offset) <= radius
    /\ lat_offset < radius
    /\ lon_offset < radius

\* get_covered_cells: the test on an offset pair.
within_radius(lat_offset, lon_offset, radius) ==
    Abs(lat_offset) + Abs(lon_offset) <= radius

get_covered_cells(cell_id, radius) ==
    LET center_lat_idx == ParseInt(cell_id[1])
        center_lon_idx == ParseInt(cell_id[2])
        offsets == {o \in (-radius..radius) \X (-radius..radius) :
                        within_radius(o[1], o[2], radius)}
    IN  {<<FormatInt(center_lat_idx + o[1]), FormatInt(center_lon_idx + o[2])>> : o \in offsets}

(***************************************************************************)
(* wave_engine.py                                                          *)
(***************************************************************************)
\* dict.get(key, default)
Get(d, key, default) == IF key \in DOMAIN d THEN d[key] ELSE default

Max(a, b) == IF a >= b THEN a ELSE b

RECURSIVE Flatten(_)
\* The concatenation of a sequence of sequences (successive list.extend calls).
Flatten(ss) == IF ss = <<>> THEN <<>> ELSE Head(ss) \o Flatten(Tail(ss))

\* The error cell_id_to_coords raises for cell_id, "" when it raises none:
\* int(parts[0]), then parts[1], then int(parts[1]); further parts are ignored.
cell_id_to_coords_error(cell_id) ==
    IF ~IsIntLiteral(cell_id[1]) THEN "ValueError"
    ELSE IF Len(cell_id) < 2 THEN "IndexError"
    ELSE IF ~IsIntLiteral(cell_id[2]) THEN "ValueError"
    ELSE ""

\* (lat, lon) of the cell centre, (idx + 0.5) * CELL_DEG, in units of CELL_DEG / 2.
cell_id_to_coords(cell_id) ==
    <<2 * ParseInt(cell_id[1]) + 1, 2 * ParseInt(cell_id[2]) + 1>>

NextHourIncident(lat, lon, cell_id, issue_reported) ==
    [lat |-> lat, lon |-> lon, cell_id |-> cell_id, issue_reported |-> issue_reported]

\* range(count) copies of one incident at the origin cell (none when count <= 0).
spawn_cluster_incidents(cell_id, incident_type, count) ==
    LET coords == cell_id_to_coords(cell_id)
    IN  [i \in 1..count |-> NextHourIncident(coords[1], coords[2], cell_id, incident_type)]

get_covered_cells_from_placements_error(placements, coverage_radius) ==
    IF \E i \in 1..Len(placements) : get_covered_cells_error(placements[i]) # ""
    THEN "ValueError" ELSE ""

get_covered_cells_from_placements(placements, coverage_radius) ==
    UNION {{placements[i]} \cup get_covered_cells(placements[i], coverage_radius) :
              i \in 1..Len(placements)}

\* The test that decides whether a cascade definition is registered.
cascade_condition_met(cascade_def, is_covered) ==
    LET condition == Get(cascade_def, "condition", "always")
    IN  condition = "always" \/ (condition = "if_not_covered" /\ ~is_covered)

\* The indices of the cascade definitions of a cluster that are registered.
cluster_cascade_indices(cluster, covered_cells) ==
    LET cascade_defs == Get(cluster, "cascade", <<>>)
        is_covered == cluster.cell_id \in covered_cells
        met(k) == cascade_condition_met(cascade_defs[k], is_covered)
    IN  SelectSeq([k \in 1..Len(cascade_defs) |-> k], met)

\* The pending-cascade dicts one cluster of a wave registers.
cluster_cascades(wave, cluster, covered_cells) ==
    LET cascade_defs == Get(cluster, "cascade", <<>>)
        idx == cluster_cascade_indices(cluster, covered_cells)
    IN  [j \in 1..Len(idx) |->
            [origin_cell_id |-> cluster.cell_id,
             trigger_time |-> Get(wave, "t_plus_seconds", 0)
                              + Get(cascade_defs[idx[j]], "after_seconds", 0),
             incident_type |-> Get(cascade_defs[idx[j]], "incident_type", "COLLISION"),
             count |-> Get(cascade_defs[idx[j]], "count", 1),
             spread_radius |-> Get(cluster, "spread_radius_cells", 0)]]

\* The error spawn_wave_incidents raises for a wave: that of its first cluster
\* whose cell id cell_id_to_coords rejects.
spawn_wave_incidents_error(wave) ==
    LET clusters == Get(wave, "clusters", <<>>)
        bad == {i \in 1..Len(clusters) : cell_id_to_coords_error(clusters[i].cell_id) # ""}
    IN  IF bad = {} THEN ""
        ELSE cell_id_to_coords_error(clusters[CHOOSE i \in bad : \A j \in bad : i <= j].cell_id)

\* (incidents, cascades) of a wave none of whose clusters raises.
spawn_wave_incidents(wave, covered_cells) ==
    LET clusters == Get(wave, "clusters", <<>>)
    IN  [incidents |->
            Flatten([i \in 1..Len(clusters) |->
                spawn_cluster_incidents(clusters[i].cell_id,
                                        Get(clusters[i], "incident_type", "UNKNOWN"),
                                        Get(clusters[i], "count", 1))]),
         cascades |->
            Flatten([i \in 1..Len(clusters) |->
                cluster_cascades(wave, clusters[i], covered_cells)])]

RECURSIVE process_waves(_, _, _, _, _, _)
\* The while loop of process_waves from wave index index (0-based), with the
\* pending list and the local newly_spawned list as they stand.  An exception of
\* spawn_wave_incidents leaves the loop with the index and the pending list
\* already updated by the waves before.
process_waves(waves, index, active_cascades, newly_spawned, elapsed_seconds, covered_cells) ==
    IF index < Len(waves)
    THEN LET wave == waves[index + 1]
             trigger_time == Get(wave, "t_plus_seconds", 0)
         IN  IF elapsed_seconds >= trigger_time
             THEN IF spawn_wave_incidents_error(wave) # ""
                  THEN [error |-> spawn_wave_incidents_error(wave),
                        current_wave_index |-> index,
                        active_cascades |-> active_cascades,
                        newly_spawned |-> newly_spawned]
                  ELSE process_waves(waves, index + 1,
                           active_cascades \o spawn_wave_incidents(wave, covered_cells).cascades,
                           newly_spawned \o spawn_wave_incidents(wave, covered_cells).incidents,
                           elapsed_seconds, covered_cells)
             ELSE [error |-> "", current_wave_index |-> index,
                   active_cascades |-> active_cascades, newly_spawned |-> newly_spawned]
    ELSE [error |-> "", current_wave_index |-> index,
          active_cascades |-> active_cascades, newly_spawned |-> newly_spawned]

\* (variant of cascade_due: the coverage is looked at again when the cascade is due)
cascade_due_if_uncovered(cascade, elapsed_seconds, covered_cells) ==
    /\ elapsed_seconds >= Get(cascade, "trigger_time", 0)
    /\ cascade.origin_cell_id \notin covered_cells

\* process_cascades: the test of the if branch (the cascade fires) ...
cascade_due(cascade, elapsed_seconds, covered_cells) ==
    elapsed_seconds >= Get(cascade, "trigger_time", 0)

\* (variant of cascade_kept: every cascade is kept, fired or not)
cascade_kept_always(cascade, elapsed_seconds, covered_cells) == TRUE

\* ... and of the else branch (the cascade is kept for later).
cascade_kept(cascade, elapsed_seconds, covered_cells) ==
    ~cascade_due(cascade, elapsed_seconds, covered_cells)

process_cascades(active_cascades, elapsed_seconds, covered_cells) ==
    LET due(c) == cascade_due(c, elapsed_seconds, covered_cells)
        kept(c) == cascade_kept(c, elapsed_seconds, covered_cells)
        fired == SelectSeq(active_cascades, due)
    IN  [newly_spawned |->
            Flatten([i \in 1..Len(fired) |->
                spawn_cluster_incidents(fired[i].origin_cell_id,
                                        fired[i].incident_type,
                                        Get(fired[i], "count", 1))]),
         remaining_cascades |-> SelectSeq(active_cascades, kept)]

\* (variant of extend: the list is replaced by the new items)
extend_replace(list, items) == items

\* list.extend(items)
extend(list, items) == list \o items

get_wave_summary(ws) ==
    [total_waves |-> Len(ws.waves),
     completed_waves |-> ws.current_wave_index,
     pending_waves |-> Len(ws.waves) - ws.current_wave_index,
     pending_cascades |-> Len(ws.active_cascades),
     total_incidents_spawned |-> Len(ws.spawned_incidents),
     game_time_seconds |-> ws.game_time_seconds]

\* llama_client.py: the schema check of a chaos script.  It looks at the presence
\* of fields and at the lists being non-empty, never at the form of a cell id.
validate_pandemonium_schema(data) ==
    LET required_fields == {"mode", "scenario_name", "mission_briefing",
                            "time_compression_factor", "global_modifiers", "waves"}
        required_modifiers == {"radio_congestion", "unit_fatigue_rate",
                               "dispatch_delay_seconds"}
        required_cluster_fields == {"cell_id", "incident_type", "severity", "count"}
    IN  /\ required_fields \subseteq DOMAIN data
        /\ data.mode = "PANDEMONIUM"
        /\ required_modifiers \subseteq DOMAIN data.global_modifiers
        /\ Len(data.waves) # 0
        /\ \A i \in 1..Len(data.waves) :
              /\ "t_plus_seconds" \in DOMAIN data.waves[i]
              /\ "clusters" \in DOMAIN data.waves[i]
              /\ Len(data.waves[i].clusters) # 0
              /\ \A j \in 1..Len(data.waves[i].clusters) :
                    required_cluster_fields \subseteq DOMAIN data.waves[i].clusters[j]

initialize_wave_state(pandemonium_data) ==
    [waves |-> Get(pandemonium_data, "waves", <<>>),
     global_modifiers |-> Get(pandemonium_data, "global_modifiers", <<>>),
     spawned_incidents |-> <<>>,
     active_cascades |-> <<>>,
     current_wave_index |-> 0,
     game_time_seconds |-> 0]

(***************************************************************************)
(* What the scheduler has done so far.  hist is written by update_wave_state*)
(* and read by no code: it names the wave, cluster and cascade rule each    *)
(* registration, firing and spawned incident comes from, which the code's   *)
(* own dicts do not record.  A cluster is <<w, c>> (wave, cluster, 1-based),*)
(* a cascade rule <<w, c, k>>.                                              *)
(*   max_elapsed      the largest elapsed_seconds of the calls so far that  *)
(*                    got past the placement check (-1: none yet)           *)
(*   wave_error       a call has raised inside process_waves                *)
(*   triggered[w]     how often wave w was triggered                        *)
(*   origin_covered   whether the cluster's cell was in covered_cells in the*)
(*                    call that triggered its wave                          *)
(*   registered[r]    how often rule r was put on the pending list          *)
(*   fired[r]         how often rule r fired                                *)
(*   fire_cover[r]    whether the cell was in covered_cells when r fired    *)
(*   pending_rule     the rule of each entry of active_cascades             *)
(*   cluster_spawned, cascade_spawned                                       *)
(*                    the incidents added to spawned_incidents for each     *)
(***************************************************************************)
Clusters(waves, w) == Get(waves[w], "clusters", <<>>)
CascadeDefs(waves, w, c) == Get(Clusters(waves, w)[c], "cascade", <<>>)
ClusterIds(waves) ==
    UNION {{<<w, c>> : c \in 1..Len(Clusters(waves, w))} : w \in 1..Len(waves)}
RuleIds(waves) ==
    UNION {{<<wc[1], wc[2], k>> : k \in 1..Len(CascadeDefs(waves, wc[1], wc[2]))} :
              wc \in ClusterIds(waves)}

RECURSIVE SetSum(_, _)
\* The sum of f over the finite set S.
SetSum(f, S) ==
    IF S = {} THEN 0
    ELSE LET x == CHOOSE y \in S : TRUE IN f[x] + SetSum(f, S \ {x})

\* The subsequence of s at the indices i for which keep[i] holds.
SubSeqWhere(s, keep) ==
    LET test(i) == keep[i]
        idx == SelectSeq([i \in 1..Len(s) |-> i], test)
    IN  [j \in 1..Len(idx) |-> s[idx[j]]]

NoHistory(waves) ==
    [max_elapsed |-> -1,
     steady |-> TRUE,
     wave_error |-> FALSE,
     triggered |-> [w \in 1..Len(waves) |-> 0],
     origin_covered |-> [wc \in ClusterIds(waves) |-> "not triggered"],
     registered |-> [r \in RuleIds(waves) |-> 0],
     fired |-> [r \in RuleIds(waves) |-> 0],
     fire_cover |-> [r \in RuleIds(waves) |-> "not fired"],
     pending_rule |-> <<>>,
     cluster_spawned |-> [wc \in ClusterIds(waves) |-> 0],
     cascade_spawned |-> [r \in RuleIds(waves) |-> 0]]

\* The rules registered by the waves first + 1 .. last (1-based), in the order
\* their dicts are appended to the pending list.
RegisteredRules(waves, first, last, covered_cells) ==
    Flatten([n \in 1..(last - first) |->
        LET w == first + n
        IN  Flatten([c \in 1..Len(Clusters(waves, w)) |->
                LET idx == cluster_cascade_indices(Clusters(waves, w)[c], covered_cells)
                IN  [j \in 1..Len(idx) |-> <<w, c, idx[j]>>]])])

\* hist after the waves first + 1 .. last were triggered under covered_cells.
ObserveWaves(h, waves, first, last, covered_cells) ==
    LET regs == RegisteredRules(waves, first, last, covered_cells)
    IN  [h EXCEPT
            !.triggered = [w \in DOMAIN @ |-> @[w] + IF first < w /\ w <= last THEN 1 ELSE 0],
            !.origin_covered = [wc \in DOMAIN @ |->
                IF first < wc[1] /\ wc[1] <= last
                THEN IF Clusters(waves, wc[1])[wc[2]].cell_id \in covered_cells
                     THEN "covered" ELSE "uncovered"
                ELSE @[wc]],
            !.registered = [r \in DOMAIN @ |->
                @[r] + Cardinality({i \in 1..Len(regs) : regs[i] = r})],
            !.pending_rule = @ \o regs]

\* hist after a call that returned: the incidents of the waves first + 1 .. last
\* and of the cascades that fired are now in spawned_incidents.
ObserveSpawns(h, waves, first, last, pending, elapsed_seconds, covered_cells) ==
    LET due == [i \in 1..Len(pending) |-> cascade_due(pending[i], elapsed_seconds, covered_cells)]
        kept == [i \in 1..Len(pending) |-> cascade_kept(pending[i], elapsed_seconds, covered_cells)]
        rules == h.pending_rule
        size == [i \in 1..Len(pending) |->
                    Len(spawn_cluster_incidents(pending[i].origin_cell_id,
                                                pending[i].incident_type,
                                                Get(pending[i], "count", 1)))]
    IN  [h EXCEPT
            !.fired = [r \in DOMAIN @ |->
                @[r] + Cardinality({i \in 1..Len(pending) : due[i] /\ rules[i] = r})],
            !.fire_cover = [r \in DOMAIN @ |->
                IF \E i \in 1..Len(pending) : due[i] /\ rules[i] = r
                THEN IF Clusters(waves, r[1])[r[2]].cell_id \in covered_cells
                     THEN "covered" ELSE "uncovered"
                ELSE @[r]],
            !.cascade_spawned = [r \in DOMAIN @ |->
                @[r] + SetSum(size, {i \in 1..Len(pending) : due[i] /\ rules[i] = r})],
            !.cluster_spawned = [wc \in DOMAIN @ |->
                @[wc] + IF first < wc[1] /\ wc[1] <= last
                        THEN Len(spawn_cluster_incidents(
                                    Clusters(waves, wc[1])[wc[2]].cell_id,
                                    Get(Clusters(waves, wc[1])[wc[2]], "incident_type", "UNKNOWN"),
                                    Get(Clusters(waves, wc[1])[wc[2]], "count", 1)))
                        ELSE 0],
            !.pending_rule = SubSeqWhere(rules, kept)]

(***************************************************************************)
(* update_wave_state: one call, on the WaveState object wave_state, which  *)
(* the code mutates in place and returns.  A call that raises leaves the   *)
(* object as the statements before the exception made it.                  *)
(***************************************************************************)
WaveCall(elapsed_seconds, player_placements, coverage_radius, outcome) ==
    [elapsed_seconds |-> elapsed_seconds,
     player_placements |-> player_placements,
     coverage_radius |-> coverage_radius,
     outcome |-> outcome]

\* The body of update_wave_state on the object ws: the fields of ws when the
\* call ends, how it ends, and the pending list as process_waves left it.
run_update_wave_state(ws, elapsed_seconds, player_placements, coverage_radius) ==
    LET timed == [ws EXCEPT !.game_time_seconds = elapsed_seconds]
        cover_error == get_covered_cells_from_placements_error(player_placements, coverage_radius)
        covered_cells == get_covered_cells_from_placements(player_placements, coverage_radius)
        pw == process_waves(timed.waves, ws.current_wave_index, timed.active_cascades, <<>>,
                            elapsed_seconds, covered_cells)
        pc == process_cascades(pw.active_cascades, elapsed_seconds, covered_cells)
    IN  IF cover_error # ""
        THEN [outcome |-> cover_error, wave_state |-> timed, after_waves |-> <<>>]
        ELSE IF pw.error # ""
        THEN [outcome |-> pw.error,
              wave_state |-> [timed EXCEPT !.current_wave_index = pw.current_wave_index,
                                           !.active_cascades = pw.active_cascades],
              after_waves |-> pw.active_cascades]
        ELSE [outcome |-> "ok",
              wave_state |-> [timed EXCEPT
                  !.current_wave_index = pw.current_wave_index,
                  !.active_cascades = pc.remaining_cascades,
                  !.spawned_incidents = extend(extend(@, pw.newly_spawned), pc.newly_spawned)],
              after_waves |-> pw.active_cascades]

\* hist.steady: every call so far came with the placements and radius of the
\* call before it and with a time that is not earlier.
Steady(h, elapsed_seconds, player_placements, coverage_radius) ==
    /\ h.steady
    /\ wcall.outcome # "none" =>
          /\ elapsed_seconds >= wcall.elapsed_seconds
          /\ player_placements = wcall.player_placements
          /\ coverage_radius = wcall.coverage_radius

update_wave_state(elapsed_seconds, player_placements, coverage_radius) ==
    LET first == wave_state.current_wave_index
        polled == [hist EXCEPT !.steady = Steady(hist, elapsed_seconds, player_placements,
                                                 coverage_radius)]
        seen == [polled EXCEPT !.max_elapsed = Max(@, elapsed_seconds)]
    IN  /\ UNCHANGED <<gvars, svars>>
        /\ \E run \in {run_update_wave_state(wave_state, elapsed_seconds, player_placements,
                                              coverage_radius)} :
              /\ wave_state' = run.wave_state
              /\ wcall' = WaveCall(elapsed_seconds, player_placements, coverage_radius,
                                   run.outcome)
              /\ IF get_covered_cells_from_placements_error(player_placements,
                                                            coverage_radius) # ""
                 THEN hist' = polled
                 ELSE \E covered_cells \in
                         {get_covered_cells_from_placements(player_placements,
                                                            coverage_radius)} :
                      \E seen_waves \in
                         {ObserveWaves(seen, wave_state.waves, first,
                                       run.wave_state.current_wave_index, covered_cells)} :
                         IF run.outcome # "ok"
                         THEN hist' = [seen_waves EXCEPT !.wave_error = TRUE]
                         ELSE hist' = ObserveSpawns(seen_waves, wave_state.waves, first,
                                                    run.wave_state.current_wave_index,
                                                    run.after_waves, elapsed_seconds,
                                                    covered_cells)

(***************************************************************************)
(* The chaos scripts and the arguments the host may pass.                  *)
(***************************************************************************)
CellA == <<"0", "0">>
CellB == <<"0", "1">>
CellNonCanonical == <<"01", "0">>
CellMalformed == <<"x">>

CascadeAlways ==
    [after_seconds |-> 1, incident_type |-> "COLLISION", count |-> 1, condition |-> "always"]
CascadeIfNotCovered ==
    [after_seconds |-> 1, incident_type |-> "FIRE", count |-> 2, condition |-> "if_not_covered"]

ClusterA ==
    [cell_id |-> CellA, incident_type |-> "CRASH", severity |-> 3, count |-> 2,
     spread_radius_cells |-> 1, cascade |-> <<CascadeIfNotCovered>>]
ClusterB ==
    [cell_id |-> CellB, incident_type |-> "CRASH", severity |-> 3, count |-> 1,
     cascade |-> <<CascadeAlways, CascadeIfNotCovered>>]
\* no count (the default 1 applies), a cell id int() accepts but never formats
ClusterNonCanonical ==
    [cell_id |-> CellNonCanonical, incident_type |-> "HAZARD", severity |-> 2,
     cascade |-> <<CascadeIfNotCovered>>]
\* no cascade list, a cell id int() rejects
ClusterMalformed ==
    [cell_id |-> CellMalformed, incident_type |-> "CRASH", severity |-> 3, count |-> 1]

WaveChoices ==
    {[t_plus_seconds |-> 0, wave_name |-> "first", clusters |-> <<ClusterA>>],
     [t_plus_seconds |-> 2, wave_name |-> "second", clusters |-> <<ClusterA>>],
     [t_plus_seconds |-> 0, wave_name |-> "third", clusters |-> <<ClusterB, ClusterNonCanonical>>],
     [t_plus_seconds |-> 2, wave_name |-> "fourth", clusters |-> <<ClusterB, ClusterMalformed>>]}

Scripts ==
    UNION {[1..n -> WaveChoices] : n \in 0..MaxWaves}

ScriptHeader ==
    [mode |-> "PANDEMONIUM", scenario_name |-> "Gridlock", mission_briefing |-> "Hold the line",
     time_compression_factor |-> 1,
     global_modifiers |-> [radio_congestion |-> 0, unit_fatigue_rate |-> 1,
                           dispatch_delay_seconds |-> 0, ems_delayed |-> FALSE]]

\* Scripts with every top-level field, one without its waves entry and one with
\* nothing but its mode.
PandemoniumData ==
    {ScriptHeader @@ [waves |-> ws] : ws \in Scripts}
        \cup {ScriptHeader, [mode |-> "PANDEMONIUM"]}

ElapsedArgs == 0..MaxTime
PlacementArgs == {<<>>, <<CellB>>, <<CellNonCanonical>>, <<CellA, CellMalformed>>}
RadiusArgs == {0, 1}

GameIdle ==
    /\ scenario = <<>>
    /\ lists = <<>>
    /\ dicts = <<>>
    /\ cur = NoObject
    /\ arg = NoObject
    /\ before = NoObject
    /\ ret = NoObject
    /\ call = <<>>

WaveInit ==
    /\ \E pandemonium_data \in PandemoniumData :
          /\ wave_state = initialize_wave_state(pandemonium_data)
          /\ hist = NoHistory(wave_state.waves) @@ [pandemonium_data |-> pandemonium_data]
    /\ wcall = WaveCall(0, <<>>, 0, "none")
    /\ GameIdle
    /\ ScoreIdle

WaveNext ==
    \E elapsed_seconds \in ElapsedArgs, player_placements \in PlacementArgs,
       coverage_radius \in RadiusArgs :
        update_wave_state(elapsed_seconds, player_placements, coverage_radius)

WaveSpec == WaveInit /\ [][WaveNext]_vars

(***************************************************************************)
(* Properties of the wave / cascade scheduler (checked under WaveSpec).    *)
(***************************************************************************)
ClusterOf(wc) == Clusters(wave_state.waves, wc[1])[wc[2]]
RuleOf(r) == CascadeDefs(wave_state.waves, r[1], r[2])[r[3]]
\* The absolute trigger time of cascade rule r: its wave's time plus its delay.
RuleTime(r) == wave_state.waves[r[1]].t_plus_seconds + RuleOf(r).after_seconds
\* range(count) has max(count, 0) elements; a cluster without count spawns one incident.
ClusterCount(wc) ==
    IF "count" \in DOMAIN ClusterOf(wc) THEN Max(ClusterOf(wc).count, 0) ELSE 1
RuleCount(r) == Max(RuleOf(r).count, 0)

\* C7: a call whose elapsed_seconds is at most the largest value supplied before
\* spawns nothing: spawned incidents, wave cursor and pending cascades are the
\* same after the call as before it.  (Calls rejected for a malformed placement
\* are not counted among the values supplied before.)
C7_NoSpawnOnRepeat ==
    [][wcall'.elapsed_seconds <= hist.max_elapsed =>
          /\ wave_state'.spawned_incidents = wave_state.spawned_incidents
          /\ wave_state'.current_wave_index = wave_state.current_wave_index
          /\ wave_state'.active_cascades = wave_state.active_cascades]_vars

\* The same as long as no call has raised inside process_waves.
NoSpawnOnRepeatUnlessRaised ==
    [][wcall'.elapsed_seconds <= hist.max_elapsed /\ ~hist.wave_error =>
          /\ wave_state'.spawned_incidents = wave_state.spawned_incidents
          /\ wave_state'.current_wave_index = wave_state.current_wave_index
          /\ wave_state'.active_cascades = wave_state.active_cascades]_vars

\* C8: each wave is triggered at most once and each registered cascade fires at
\* most once; the incidents spawned for a cluster or for a cascade rule never
\* exceed its count; a cascade that has fired is no longer pending.
C8_AtMostOnce ==
    LET waves == wave_state.waves
        spawned == wave_state.spawned_incidents
        pending == wave_state.active_cascades
    IN  /\ \A w \in 1..Len(waves) : hist.triggered[w] <= 1
        /\ \A r \in RuleIds(waves) :
              /\ hist.registered[r] <= 1
              /\ hist.fired[r] <= 1
              /\ hist.cascade_spawned[r] <= RuleCount(r)
        /\ \A wc \in ClusterIds(waves) : hist.cluster_spawned[wc] <= ClusterCount(wc)
        \* the pending list holds exactly the dicts of the rules not yet fired
        /\ Len(pending) = Len(hist.pending_rule)
        /\ \A i \in 1..Len(pending) :
              /\ hist.fired[hist.pending_rule[i]] = 0
              /\ pending[i].trigger_time = RuleTime(hist.pending_rule[i])
              /\ pending[i].origin_cell_id = ClusterOf(<<hist.pending_rule[i][1],
                                                         hist.pending_rule[i][2]>>).cell_id
        \* and the spawned list holds exactly the incidents counted above
        /\ Len(spawned) = SetSum(hist.cluster_spawned, ClusterIds(waves))
                          + SetSum(hist.cascade_spawned, RuleIds(waves))
        /\ \A cell \in {CellA, CellB, CellNonCanonical}, type \in {"CRASH", "HAZARD", "COLLISION", "FIRE"} :
              Cardinality({i \in 1..Len(spawned) :
                              spawned[i].cell_id = cell /\ spawned[i].issue_reported = type})
              <= SetSum([wc \in ClusterIds(waves) |->
                            IF ClusterOf(wc).cell_id = cell /\ ClusterOf(wc).incident_type = type
                            THEN ClusterCount(wc) ELSE 0], ClusterIds(waves))
                 + SetSum([r \in RuleIds(waves) |->
                            IF ClusterOf(<<r[1], r[2]>>).cell_id = cell /\ RuleOf(r).incident_type = type
                            THEN RuleCount(r) ELSE 0], RuleIds(waves))

\* Both waves triggered, every rule fired with its full count, nothing pending,
\* and one more call made after that.
C8_Witness ==
    /\ Len(wave_state.waves) = 2
    /\ wave_state.current_wave_index = 2
    /\ wave_state.active_cascades = <<>>
    /\ \E r \in RuleIds(wave_state.waves) : hist.fired[r] = 1 /\ hist.cascade_spawned[r] = 2
    /\ \A r \in RuleIds(wave_state.waves) : hist.fired[r] = 1
    /\ wcall.outcome = "ok"
    /\ wcall.elapsed_seconds < hist.max_elapsed

\* C9: an if_not_covered cascade is decided by the coverage of the call that
\* triggers its wave: it is registered exactly when the origin cell was outside
\* covered_cells in that call (an always cascade whenever the wave triggers), a
\* registered cascade stays pending until it fires, whatever later calls cover,
\* and once a call with elapsed_seconds at or past its trigger time has returned
\* it has fired; a cascade that was not registered never fires.
C9_DecidedAtTrigger ==
    \A r \in RuleIds(wave_state.waves) :
        LET condition == RuleOf(r).condition
            at_trigger == hist.origin_covered[<<r[1], r[2]>>]
            decided == \/ condition = "always" /\ at_trigger # "not triggered"
                       \/ condition = "if_not_covered" /\ at_trigger = "uncovered"
        IN  /\ hist.registered[r] = IF decided THEN 1 ELSE 0
            /\ hist.fired[r] <= hist.registered[r]
            /\ hist.registered[r] = 1 /\ hist.fired[r] = 0 =>
                  \E i \in 1..Len(hist.pending_rule) : hist.pending_rule[i] = r
            /\ (wcall.outcome = "ok" /\ hist.registered[r] = 1
                    /\ RuleTime(r) <= wcall.elapsed_seconds) => hist.fired[r] = 1

\* One rule registered on an uncovered cell that fired in a call covering the
\* cell; another whose cell was covered at the trigger and that has not fired
\* though the last call, past its trigger time, no longer covers the cell.
C9_Witness ==
    \E r1, r2 \in RuleIds(wave_state.waves) :
        /\ RuleOf(r1).condition = "if_not_covered"
        /\ hist.origin_covered[<<r1[1], r1[2]>>] = "uncovered"
        /\ hist.fire_cover[r1] = "covered"
        /\ RuleOf(r2).condition = "if_not_covered"
        /\ hist.origin_covered[<<r2[1], r2[2]>>] = "covered"
        /\ hist.fired[r2] = 0
        /\ wcall.outcome = "ok"
        /\ RuleTime(r2) <= wcall.elapsed_seconds
        /\ ClusterOf(<<r2[1], r2[2]>>).cell_id \notin
              get_covered_cells_from_placements(wcall.player_placements, wcall.coverage_radius)

\* C10: across every update_wave_state call the wave cursor never decreases and
\* never exceeds the number of waves, and the spawned-incident list only grows
\* by appending.
C10_NeverRewinds ==
    [][/\ wave_state'.waves = wave_state.waves
       /\ wave_state'.current_wave_index >= wave_state.current_wave_index
       /\ wave_state'.current_wave_index <= Len(wave_state'.waves)
       /\ get_wave_summary(wave_state').completed_waves
             >= get_wave_summary(wave_state).completed_waves
       /\ get_wave_summary(wave_state').pending_waves >= 0
       /\ Len(wave_state'.spawned_incidents) >= Len(wave_state.spawned_incidents)
       /\ \A i \in 1..Len(wave_state.spawned_incidents) :
             wave_state'.spawned_incidents[i] = wave_state.spawned_incidents[i]]_vars

\* All waves triggered and incidents spawned, and the last call came with an
\* earlier time than a call before it.
C10_Witness ==
    /\ Len(wave_state.waves) = 2
    /\ wave_state.current_wave_index = 2
    /\ Len(wave_state.spawned_incidents) >= 4
    /\ wcall.outcome = "ok"
    /\ wcall.elapsed_seconds < hist.max_elapsed
    /\ wave_state.game_time_seconds < hist.max_elapsed

\* C11: update_wave_state is copy-on-write: the WaveState object passed in has
\* the same cursor, pending cascades, spawned incidents and elapsed time after
\* the call as before it.  (wave_state is that object: the code returns it.)
C11_CopyOnWrite ==
    [][/\ wave_state'.current_wave_index = wave_state.current_wave_index
       /\ wave_state'.active_cascades = wave_state.active_cascades
       /\ wave_state'.spawned_incidents = wave_state.spawned_incidents
       /\ wave_state'.game_time_seconds = wave_state.game_time_seconds]_vars

\* C12: a WaveState is produced only for a chaos script that passes the schema
\* validation; initialising from any other script fails with an error.
C12_InitRefusesInvalid ==
    wave_state # <<>> => validate_pandemonium_schema(hist.pandemonium_data)

(***************************************************************************)
(* rules.py: distance, coverage map and covered incidents.                 *)
(***************************************************************************)
\* The error compute_manhattan_distance raises, "" when it raises none.
compute_manhattan_distance_error(cell_id_1, cell_id_2) ==
    IF get_covered_cells_error(cell_id_1) # "" THEN "ValueError"
    ELSE IF get_covered_cells_error(cell_id_2) # "" THEN "ValueError"
    ELSE ""

compute_manhattan_distance(cell_id_1, cell_id_2) ==
    LET lat1 == ParseInt(cell_id_1[1])
        lon1 == ParseInt(cell_id_1[2])
        lat2 == ParseInt(cell_id_2[1])
        lon2 == ParseInt(cell_id_2[2])
    IN  Abs(lat1 - lat2) + Abs(lon1 - lon2)

\* get_covered_cells is called for every placement, in order.
compute_coverage_map_error(placements, radius) ==
    IF \E i \in 1..Len(placements) : get_covered_cells_error(placements[i]) # ""
    THEN "ValueError" ELSE ""

\* The dict cell id -> number of placements whose coverage set holds it.
compute_coverage_map(placements, radius) ==
    LET covered_cells(i) == get_covered_cells(placements[i], radius)
        cells == UNION {covered_cells(i) : i \in 1..Len(placements)}
    IN  [cell \in cells |->
            Cardinality({i \in 1..Len(placements) : cell \in covered_cells(i)})]

check_incident_coverage_error(incident_cell_id, placements, radius) ==
    compute_coverage_map_error(placements, radius)

check_incident_coverage(incident_cell_id, placements, radius) ==
    incident_cell_id \in DOMAIN compute_coverage_map(placements, radius)

\* An empty incident list returns before the placements are parsed.
compute_covered_incidents_error(next_hour_incidents, placements, radius) ==
    IF next_hour_incidents = <<>> THEN ""
    ELSE compute_coverage_map_error(placements, radius)

compute_covered_incidents(next_hour_incidents, placements, radius) ==
    IF next_hour_incidents = <<>>
    THEN [covered_count |-> 0, missed_count |-> 0, covered_cells |-> {}, missed_cells |-> {}]
    ELSE LET coverage_map == compute_coverage_map(placements, radius)
             n == Len(next_hour_incidents)
             covered == {i \in 1..n : next_hour_incidents[i].cell_id \in DOMAIN coverage_map}
         IN  [covered_count |-> Cardinality(covered),
              missed_count |-> Cardinality((1..n) \ covered),
              covered_cells |-> {next_hour_incidents[i].cell_id : i \in covered},
              missed_cells |-> {next_hour_incidents[i].cell_id : i \in (1..n) \ covered}]

(***************************************************************************)
(* scoring.py.  A float is modelled by the exact fraction <<num, den>> it  *)
(* stands for, den being the number of incidents (1 when there are none);  *)
(* the weights are the whole numbers the defaults are.                     *)
(***************************************************************************)
STACKING_THRESHOLD == 3
DefaultMissedIncidentPenalty == 2
DefaultStackingPenaltyWeight == 5
DefaultNeglectPenaltyWeight == 10
BaseScoreScale == 100

\* incident.neighborhood is Optional[str]: None, or a string (that may be empty).
None == "<None>"
\* Python truth of a neighborhood: None and "" are false.
Truthy(neighborhood) == neighborhood \notin {None, ""}

\* (variant of compute_coverage_rate: no test for an empty incident list)
compute_coverage_rate_unguarded(covered_incidents, total_incidents) ==
    <<covered_incidents, total_incidents>>

\* covered_incidents / total_incidents, 0.0 when there are no incidents.
compute_coverage_rate(covered_incidents, total_incidents) ==
    IF total_incidents = 0 THEN <<0, 1>> ELSE <<covered_incidents, total_incidents>>

\* Fewer than two placements return before any cell id is parsed.
compute_stacking_penalty_error(placements) ==
    IF Len(placements) < 2 THEN ""
    ELSE IF \E i \in 1..Len(placements) : get_covered_cells_error(placements[i]) # ""
    THEN "ValueError" ELSE ""

\* (variant of stacked: units exactly STACKING_THRESHOLD apart are not stacked)
stacked_strict(distance) == distance < STACKING_THRESHOLD

\* compute_stacking_penalty: the test distance <= STACKING_THRESHOLD.
stacked(distance) == distance <= STACKING_THRESHOLD

compute_stacking_penalty(placements, penalty_per_overlap) ==
    IF Len(placements) < 2 THEN 0
    ELSE LET n == Len(placements)
             stacked_pairs ==
                 Cardinality({ij \in (1..n) \X (1..n) :
                     /\ ij[1] < ij[2]
                     /\ stacked(compute_manhattan_distance(placements[ij[1]],
                                                           placements[ij[2]]))})
         IN  stacked_pairs * penalty_per_overlap

\* No truth incidents return before the placements are parsed.
compute_neglect_penalty_error(placements, next_hour_incidents, radius) ==
    IF next_hour_incidents = <<>> THEN ""
    ELSE compute_coverage_map_error(placements, radius)

\* (variant of neighborhoods_with_coverage: every incident of the neighborhood
\* must be covered)
neighborhoods_with_coverage_all(next_hour_incidents, coverage_map) ==
    {next_hour_incidents[i].neighborhood : i \in
        {i \in 1..Len(next_hour_incidents) :
            /\ Truthy(next_hour_incidents[i].neighborhood)
            /\ \A j \in 1..Len(next_hour_incidents) :
                  next_hour_incidents[j].neighborhood = next_hour_incidents[i].neighborhood
                      => next_hour_incidents[j].cell_id \in DOMAIN coverage_map}}

\* compute_neglect_penalty: the second loop.
neighborhoods_with_coverage(next_hour_incidents, coverage_map) ==
    {next_hour_incidents[i].neighborhood : i \in
        {i \in 1..Len(next_hour_incidents) :
            /\ next_hour_incidents[i].cell_id \in DOMAIN coverage_map
            /\ Truthy(next_hour_incidents[i].neighborhood)}}

compute_neglect_penalty(placements, next_hour_incidents, radius, penalty_per_neighborhood) ==
    IF next_hour_incidents = <<>> THEN 0
    ELSE LET coverage_map == compute_coverage_map(placements, radius)
             neighborhoods_with_incidents ==
                 {next_hour_incidents[i].neighborhood : i \in
                     {i \in 1..Len(next_hour_incidents) :
                         Truthy(next_hour_incidents[i].neighborhood)}}
             neglected == neighborhoods_with_incidents
                              \ neighborhoods_with_coverage(next_hour_incidents, coverage_map)
         IN  Cardinality(neglected) * penalty_per_neighborhood

\* The error compute_score raises: that of the first of compute_covered_incidents,
\* compute_stacking_penalty and compute_neglect_penalty that raises.
compute_score_error(placements, next_hour_incidents, radius) ==
    IF compute_covered_incidents_error(next_hour_incidents, placements, radius) # ""
    THEN compute_covered_incidents_error(next_hour_incidents, placements, radius)
    ELSE IF compute_stacking_penalty_error(placements) # ""
    THEN compute_stacking_penalty_error(placements)
    ELSE compute_neglect_penalty_error(placements, next_hour_incidents, radius)

\* (variant of floor_score: the score is not floored)
floor_score_none(final_score) == final_score

\* max(0.0, final_score)
floor_score(final_score) ==
    IF final_score[1] < 0 THEN <<0, final_score[2]>> ELSE final_score

compute_score(placements, next_hour_incidents, radius, missed_incident_penalty, stacking_penalty_weight, neglect_penalty_weight) ==
    LET counts == compute_covered_incidents(next_hour_incidents, placements, radius)
        total_incidents == Len(next_hour_incidents)
        coverage_rate == compute_coverage_rate(counts.covered_count, total_incidents)
        base_score == <<BaseScoreScale * coverage_rate[1], coverage_rate[2]>>
        stacking_penalty == compute_stacking_penalty(placements, stacking_penalty_weight)
        neglect_penalty == compute_neglect_penalty(placements, next_hour_incidents, radius,
                                                   neglect_penalty_weight)
        missed_penalty == counts.missed_count * missed_incident_penalty
        balance_bonus == 0
        final_score ==
            <<base_score[1]
                  - (missed_penalty + stacking_penalty + neglect_penalty - balance_bonus)
                        * base_score[2],
              base_score[2]>>
    IN  [coverage_rate |-> coverage_rate,
         covered_incidents |-> counts.covered_count,
         missed_incidents |-> counts.missed_count,
         total_incidents |-> total_incidents,
         base_score |-> base_score,
         stacking_penalty |-> stacking_penalty,
         neglect_penalty |-> neglect_penalty,
         balance_bonus |-> balance_bonus,
         final_score |-> floor_score(final_score)]

(***************************************************************************)
(* The coverage functions of rules.py applied to two cell ids and a radius.*)
(***************************************************************************)
\* Cell ids in the form the grid writes them, f"{lat_idx}_{lon_idx}".
CanonicalCells(indices) == {<<FormatInt(i), FormatInt(j)>> : i, j \in indices}
\* A cell id is in that form when formatting its parsed indices gives it back.
IsCanonical(cell_id) ==
    /\ get_covered_cells_error(cell_id) = ""
    /\ \A k \in 1..2 : FormatInt(ParseInt(cell_id[k])) = cell_id[k]

\* Ids int() accepts that are not in that form, and ids get_covered_cells rejects.
NonCanonicalCells == {<<"01", "0">>, <<"0", "01">>}
MalformedCells == {<<"x">>, <<"0", "x">>, <<"x", "0">>, <<"0", "0", "0">>, <<"">>}

CoverCellArgs == CanonicalCells(PlacedIndices) \cup NonCanonicalCells \cup MalformedCells
CoverRadiusArgs == 0..MaxRadius

\* The result of one call on the arguments score_in; op is "none" before it.
ScoreResult(op, outcome, value) == [op |-> op, outcome |-> outcome, value |-> value]

apply_get_covered_cells ==
    /\ score_out.op = "none"
    /\ score_out' =
          IF get_covered_cells_error(score_in.cell_id_1) # ""
          THEN ScoreResult("get_covered_cells", get_covered_cells_error(score_in.cell_id_1), {})
          ELSE ScoreResult("get_covered_cells", "ok",
                           get_covered_cells(score_in.cell_id_1, score_in.radius))
    /\ UNCHANGED <<gvars, wvars, score_in>>

apply_compute_manhattan_distance ==
    /\ score_out.op = "none"
    /\ score_out' =
          IF compute_manhattan_distance_error(score_in.cell_id_1, score_in.cell_id_2) # ""
          THEN ScoreResult("compute_manhattan_distance",
                           compute_manhattan_distance_error(score_in.cell_id_1,
                                                            score_in.cell_id_2), 0)
          ELSE ScoreResult("compute_manhattan_distance", "ok",
                           compute_manhattan_distance(score_in.cell_id_1, score_in.cell_id_2))
    /\ UNCHANGED <<gvars, wvars, score_in>>

CoverInit ==
    /\ score_in \in [cell_id_1 : CoverCellArgs, cell_id_2 : CoverCellArgs,
                      radius : CoverRadiusArgs]
    /\ score_out = ScoreResult("none", "none", 0)
    /\ GameIdle
    /\ WaveIdle

CoverNext ==
    \/ apply_get_covered_cells
    \/ apply_compute_manhattan_distance

CoverSpec == CoverInit /\ [][CoverNext]_vars

(***************************************************************************)
(* Properties of the coverage functions (checked under CoverSpec).         *)
(***************************************************************************)
Returned(op) == score_out.op = op /\ score_out.outcome = "ok"
Raised(op) == score_out.op = op /\ score_out.outcome \notin {"ok", "none"}

\* C15: coverage is symmetric: for all cell ids A and B the code accepts and
\* every radius r, B is in get_covered_cells(A, r) exactly when A is in
\* get_covered_cells(B, r).
C15_Symmetric ==
    Returned("get_covered_cells") /\ get_covered_cells_error(score_in.cell_id_2) = "" =>
        (score_in.cell_id_2 \in score_out.value
            <=> score_in.cell_id_1 \in get_covered_cells(score_in.cell_id_2, score_in.radius))

\* C15 as amended: the same for cell ids A and B in canonical form.
C15_SymmetricCanonical ==
    /\ Returned("get_covered_cells")
    /\ IsCanonical(score_in.cell_id_1)
    /\ IsCanonical(score_in.cell_id_2)
    => (score_in.cell_id_2 \in score_out.value
            <=> score_in.cell_id_1 \in get_covered_cells(score_in.cell_id_2, score_in.radius))

\* Two different canonical cells, one step apart, one in the coverage set of the other.
C15_Witness ==
    /\ Returned("get_covered_cells")
    /\ score_in.cell_id_1 = <<"-1", "0">>
    /\ score_in.cell_id_2 = <<"0", "0">>
    /\ score_in.radius = 1
    /\ score_in.cell_id_2 \in score_out.value

\* The canonical cell ids within distance r of A, by compute_manhattan_distance.
TaxicabDisk(cell_id, radius) ==
    {b \in CanonicalCells(GridIndices) : compute_manhattan_distance(cell_id, b) <= radius}

\* C16: for every cell id A the code accepts and radius r >= 0,
\* get_covered_cells(A, r) is exactly the set of cells at Manhattan distance
\* at most r from A: it contains A, has one element at r = 0 and holds no cell
\* farther than r.
C16_TaxicabDisk ==
    Returned("get_covered_cells") =>
        /\ score_out.value = TaxicabDisk(score_in.cell_id_1, score_in.radius)
        /\ score_in.cell_id_1 \in score_out.value
        /\ score_in.radius = 0 => Cardinality(score_out.value) = 1

\* C16 as amended: the same for a cell id A in canonical form, and A itself is
\* in the set only then.
C16_TaxicabDiskCanonical ==
    Returned("get_covered_cells") =>
        /\ score_out.value = TaxicabDisk(score_in.cell_id_1, score_in.radius)
        /\ score_in.cell_id_1 \in score_out.value <=> IsCanonical(score_in.cell_id_1)
        /\ score_in.radius = 0 => Cardinality(score_out.value) = 1

\* A cell with a negative index and the largest radius: 2r(r+1)+1 cells.
C16_Witness ==
    /\ Returned("get_covered_cells")
    /\ score_in.cell_id_1 = <<"-1", "2">>
    /\ score_in.radius = MaxRadius
    /\ Cardinality(score_out.value) = 2 * MaxRadius * (MaxRadius + 1) + 1
    /\ <<FormatInt(-1 - MaxRadius), "2">> \in score_out.value

\* C17: coverage grows with the radius: get_covered_cells(A, r1) is a subset
\* of get_covered_cells(A, r2) whenever r1 < r2.
C17_Monotonic ==
    Returned("get_covered_cells") =>
        \A r2 \in (score_in.radius + 1)..(MaxRadius + 1) :
            score_out.value \subseteq get_covered_cells(score_in.cell_id_1, r2)

\* A coverage set of radius 1 that is a proper subset of that of radius 2.
C17_Witness ==
    /\ Returned("get_covered_cells")
    /\ score_in.radius = 1
    /\ Cardinality(score_out.value) = 5
    /\ score_out.value # get_covered_cells(score_in.cell_id_1, 2)

(***************************************************************************)
(* The scoring functions applied to a placement list, the truth incidents  *)
(* of a scenario and a radius.                                             *)
(***************************************************************************)
\* scenario.truth.next_hour_incidents: the fields the scoring reads.
TruthIncident(cell_id, neighborhood) == [cell_id |-> cell_id, neighborhood |-> neighborhood]

\* (0,0) and (2,1) are 3 apart, (-1,0) and (2,1) are 4 apart, "01_0" is (1,0).
ScoreCellArgs == {<<"0", "0">>, <<"2", "1">>, <<"-1", "0">>, <<"01", "0">>, <<"x">>}
ExamplePlacements == <<<<"100", "-200">>>>
ExampleIncidents ==
    <<TruthIncident(<<"100", "-200">>, None), TruthIncident(<<"100", "-205">>, None)>>

ScorePlacementArgs ==
    UNION {[1..n -> ScoreCellArgs] : n \in 0..MaxPlacements} \cup {ExamplePlacements}

ScoreIncidentArgs ==
    {<<>>,
     ExampleIncidents,
     <<TruthIncident(<<"0", "0">>, "Downtown")>>,
     <<TruthIncident(<<"0", "1">>, "Downtown"), TruthIncident(<<"2", "2">>, "Downtown")>>,
     <<TruthIncident(<<"0", "0">>, "Downtown"), TruthIncident(<<"2", "2">>, "East"),
       TruthIncident(<<"-1", "-1">>, None)>>,
     <<TruthIncident(<<"1", "0">>, "East"), TruthIncident(<<"1", "0">>, "East"),
       TruthIncident(<<"2", "-1">>, "")>>,
     <<TruthIncident(<<"01", "0">>, "East")>>,
     <<TruthIncident(<<"x">>, "East"), TruthIncident(<<"0", "0">>, "Downtown")>>}

ScoreRadiusArgs == 0..MaxRadius

\* One call, on arguments no function has been applied to yet, of a function
\* that either raises error or returns value.
Apply(op, error, value) ==
    /\ score_out.op = "none"
    /\ score_out' = IF error # "" THEN ScoreResult(op, error, 0) ELSE ScoreResult(op, "ok", value)
    /\ UNCHANGED <<gvars, wvars, score_in>>

apply_compute_coverage_map ==
    \E error \in {compute_coverage_map_error(score_in.placements, score_in.radius)} :
        Apply("compute_coverage_map", error,
              IF error # "" THEN 0
              ELSE compute_coverage_map(score_in.placements, score_in.radius))

apply_compute_covered_incidents ==
    \E error \in {compute_covered_incidents_error(score_in.incidents, score_in.placements,
                                                   score_in.radius)} :
        Apply("compute_covered_incidents", error,
              IF error # "" THEN 0
              ELSE compute_covered_incidents(score_in.incidents, score_in.placements,
                                             score_in.radius))

apply_compute_stacking_penalty ==
    \E error \in {compute_stacking_penalty_error(score_in.placements)} :
        Apply("compute_stacking_penalty", error,
              IF error # "" THEN 0
              ELSE compute_stacking_penalty(score_in.placements,
                                            DefaultStackingPenaltyWeight))

apply_compute_neglect_penalty ==
    \E error \in {compute_neglect_penalty_error(score_in.placements, score_in.incidents,
                                                 score_in.radius)} :
        Apply("compute_neglect_penalty", error,
              IF error # "" THEN 0
              ELSE compute_neglect_penalty(score_in.placements, score_in.incidents,
                                           score_in.radius, DefaultNeglectPenaltyWeight))

apply_compute_score ==
    \E error \in {compute_score_error(score_in.placements, score_in.incidents,
                                       score_in.radius)} :
        Apply("compute_score", error,
              IF error # "" THEN 0
              ELSE compute_score(score_in.placements, score_in.incidents, score_in.radius,
                                 DefaultMissedIncidentPenalty, DefaultStackingPenaltyWeight,
                                 DefaultNeglectPenaltyWeight))

ScoreInit ==
    /\ score_in \in [placements : ScorePlacementArgs, incidents : ScoreIncidentArgs,
                      radius : ScoreRadiusArgs]
    /\ score_out = ScoreResult("none", "none", 0)
    /\ GameIdle
    /\ WaveIdle

ScoreNext ==
    \/ apply_compute_coverage_map
    \/ apply_compute_covered_incidents
    \/ apply_compute_stacking_penalty
    \/ apply_compute_neglect_penalty
    \/ apply_compute_score

ScoreSpec == ScoreInit /\ [][ScoreNext]_vars

(***************************************************************************)
(* Properties of the scoring functions (checked under ScoreSpec).          *)
(***************************************************************************)
IncidentIndices == 1..Len(score_in.incidents)
PlacementIndices == 1..Len(score_in.placements)

\* The cell of incident i is within the radius of at least one placement, by
\* compute_manhattan_distance (no distance: not within the radius).
WithinRadius(i) ==
    \E j \in PlacementIndices :
        /\ compute_manhattan_distance_error(score_in.incidents[i].cell_id,
                                            score_in.placements[j]) = ""
        /\ compute_manhattan_distance(score_in.incidents[i].cell_id,
                                      score_in.placements[j]) <= score_in.radius

\* What C13 says of the counts and the cell sets, covered being the indices of
\* the incidents that are to count as covered.
Partition(covered) ==
    /\ score_out.value.covered_count + score_out.value.missed_count = Len(score_in.incidents)
    /\ score_out.value.covered_count = Cardinality(covered)
    /\ score_out.value.covered_cells = {score_in.incidents[i].cell_id : i \in covered}
    /\ score_out.value.covered_cells \cap score_out.value.missed_cells = {}
    /\ score_out.value.covered_cells \cup score_out.value.missed_cells
           = {score_in.incidents[i].cell_id : i \in IncidentIndices}

\* C13: compute_covered_incidents returns covered_count + missed_count = number
\* of incidents, an incident being counted covered exactly when its cell is
\* within the radius (Manhattan distance) of at least one placement; covered_cells
\* and missed_cells are disjoint and their union is the set of all incident cells.
C13_Partition ==
    Returned("compute_covered_incidents") =>
        Partition({i \in IncidentIndices : WithinRadius(i)})

\* C13 as amended: an incident is counted covered exactly when its cell id is
\* in canonical form and within the radius of at least one placement.
C13_PartitionCanonical ==
    Returned("compute_covered_incidents") =>
        Partition({i \in IncidentIndices :
                      IsCanonical(score_in.incidents[i].cell_id) /\ WithinRadius(i)})

\* One incident covered from a neighbouring cell, one missed.
C13_Witness ==
    /\ Returned("compute_covered_incidents")
    /\ score_in.placements = <<<<"0", "0">>>>
    /\ score_in.radius = 1
    /\ score_out.value.covered_cells = {<<"0", "1">>}
    /\ score_out.value.missed_cells = {<<"2", "2">>}

\* The fraction x is the whole number n.
IsNumber(x, n) == x[2] > 0 /\ x[1] = n * x[2]

C18_MalformedRejected ==
    /\ score_out.op # "none"
    /\ \E j \in PlacementIndices : get_covered_cells_error(score_in.placements[j]) # ""
    => score_out.outcome = "ValueError"

\* The number of unordered pairs of entries of the placement list at most 3 apart.
StackedPairs ==
    Cardinality({ij \in PlacementIndices \X PlacementIndices :
        /\ ij[1] < ij[2]
        /\ Abs(ParseInt(score_in.placements[ij[1]][1]) - ParseInt(score_in.placements[ij[2]][1]))
             + Abs(ParseInt(score_in.placements[ij[1]][2])
                     - ParseInt(score_in.placements[ij[2]][2])) <= 3})

\* C19: compute_stacking_penalty is 5.0 times the number of unordered pairs of
\* entries of the placement list at Manhattan distance <= 3: one pair (5.0) for
\* two placements 3 apart, none at distance 4, three pairs (15.0) for three
\* placements all within 3 of each other, 0 for fewer than two placements.
C19_StackingPenalty ==
    Returned("compute_stacking_penalty") =>
        /\ Len(score_in.placements) < 2 => score_out.value = 0
        /\ Len(score_in.placements) >= 2 => score_out.value = 5 * StackedPairs
        /\ score_in.placements = <<<<"0", "0">>, <<"2", "1">>>> => score_out.value = 5
        /\ score_in.placements = <<<<"-1", "0">>, <<"2", "1">>>> => score_out.value = 0
        /\ score_in.placements = <<<<"0", "0">>, <<"2", "1">>, <<"01", "0">>>>
               => score_out.value = 15

\* Two placements exactly 3 apart.
C19_Witness ==
    /\ Returned("compute_stacking_penalty")
    /\ score_in.placements = <<<<"0", "0">>, <<"2", "1">>>>
    /\ score_out.value = 5

\* The neighborhoods with a truth incident and none that the placements cover;
\* an incident without a neighborhood (None, "") belongs to none.
Neglected ==
    LET Covered(i) ==
            \E j \in PlacementIndices :
                score_in.incidents[i].cell_id
                    \in get_covered_cells(score_in.placements[j], score_in.radius)
        Named == {i \in IncidentIndices : score_in.incidents[i].neighborhood \notin {None, ""}}
    IN  {n \in {score_in.incidents[i].neighborhood : i \in Named} :
            ~\E i \in Named : score_in.incidents[i].neighborhood = n /\ Covered(i)}

\* C20: compute_neglect_penalty is 10.0 times the number of neighborhoods that
\* have at least one truth incident and no truth incident whose cell is covered
\* by the placements; it is 0 when there are no truth incidents.
C20_NeglectPenalty ==
    Returned("compute_neglect_penalty") =>
        /\ score_in.incidents = <<>> => score_out.value = 0
        /\ score_in.incidents # <<>> => score_out.value = 10 * Cardinality(Neglected)

\* A neighborhood with one covered and one missed incident is not counted.
C20_Witness ==
    /\ Returned("compute_neglect_penalty")
    /\ score_in.placements = <<<<"0", "0">>>>
    /\ score_in.radius = 1
    /\ score_in.incidents = <<TruthIncident(<<"0", "1">>, "Downtown"),
                              TruthIncident(<<"2", "2">>, "Downtown")>>
    /\ score_out.value = 0

\* Every placement is a cell id get_covered_cells accepts.
WellFormedPlacements ==
    \A j \in PlacementIndices : get_covered_cells_error(score_in.placements[j]) = ""

\* C21: coverage and scoring are total on well-formed input (no placements, no
\* incidents and radius 0 included): compute_score gives coverage_rate 0 for no
\* placements and a non-empty truth set, coverage_rate 0 and final_score 0 for
\* an empty truth set, and compute_covered_incidents gives 0 covered and 0
\* missed on empty inputs.
C21_Total ==
    /\ score_out.op # "none" /\ WellFormedPlacements => score_out.outcome = "ok"
    /\ Returned("compute_score") /\ score_in.placements = <<>> /\ score_in.incidents # <<>>
          => IsNumber(score_out.value.coverage_rate, 0)
    /\ Returned("compute_score") /\ score_in.incidents = <<>>
          => /\ IsNumber(score_out.value.coverage_rate, 0)
             /\ IsNumber(score_out.value.final_score, 0)
    /\ Returned("compute_covered_incidents") /\ score_in.incidents = <<>>
          => score_out.value.covered_count = 0 /\ score_out.value.missed_count = 0

\* No truth incidents, radius 0 and stacked placements: the score is 0, not negative.
C21_Witness ==
    /\ Returned("compute_score")
    /\ score_in.incidents = <<>>
    /\ score_in.radius = 0
    /\ score_out.value.stacking_penalty > 0
    /\ IsNumber(score_out.value.final_score, 0)

(***************************************************************************)
(* Further properties of the scheduler (checked under WaveSpec).           *)
(***************************************************************************)
\* What C24 says of one update_wave_state step, for the calls in ended.
FiresAtTriggerTime(ended) ==
    wcall'.outcome \in ended =>
        /\ \A i \in 1..Len(wave_state'.active_cascades) :
              wave_state'.active_cascades[i].trigger_time = RuleTime(hist'.pending_rule[i])
        /\ \A r \in RuleIds(wave_state.waves) :
              \* fired by this call: the time has come, and all its incidents are there
              /\ hist'.fired[r] > hist.fired[r] =>
                    /\ wcall'.elapsed_seconds >= RuleTime(r)
                    /\ hist'.cascade_spawned[r] = hist.cascade_spawned[r] + RuleCount(r)
              \* registered, by this call or before, and the time has come: fired
              /\ hist'.registered[r] = 1 /\ wcall'.elapsed_seconds >= RuleTime(r) =>
                    hist'.fired[r] = 1
              \* not fired by this call: none of its incidents is added
              /\ hist'.fired[r] = hist.fired[r] =>
                    hist'.cascade_spawned[r] = hist.cascade_spawned[r]

\* C24: a registered cascade carries the absolute trigger time t_plus_seconds +
\* after_seconds; its incidents are spawned by the first update call with
\* elapsed_seconds at or past that time and by no call with a smaller
\* elapsed_seconds; when the call that triggers the wave is already past that
\* time the cascade fires within that same call.  (Calls rejected for a
\* malformed placement are not counted.)
C24_FiresAtTriggerTime ==
    [][get_covered_cells_from_placements_error(wcall'.player_placements,
                                               wcall'.coverage_radius) = ""
          => FiresAtTriggerTime({"ok", "ValueError", "IndexError"})]_vars

\* The same for the calls that return.
FiresAtTriggerTimeWhenReturned ==
    [][FiresAtTriggerTime({"ok"})]_vars

\* What C25 compares: the number of spawned incidents per origin cell and
\* incident type, the wave cursor and the set of pending cascades.
PollOutcome(ws) ==
    LET spawned == ws.spawned_incidents
        kinds == {<<spawned[i].cell_id, spawned[i].issue_reported>> : i \in 1..Len(spawned)}
    IN  [spawned |-> [k \in kinds |->
                        Cardinality({i \in 1..Len(spawned) :
                            <<spawned[i].cell_id, spawned[i].issue_reported>> = k})],
         current_wave_index |-> ws.current_wave_index,
         active_cascades |-> {ws.active_cascades[i] : i \in 1..Len(ws.active_cascades)}]

\* The WaveState after one call, with the arguments of the last call, on a
\* freshly initialised WaveState.
SinglePass ==
    run_update_wave_state(initialize_wave_state(hist.pandemonium_data), wcall.elapsed_seconds,
                          wcall.player_placements, wcall.coverage_radius).wave_state

\* C25: polling cadence does not change the outcome: after any sequence of
\* calls with the same placements and radius and non-decreasing elapsed_seconds
\* ending at T, the spawned counts, the cursor and the pending cascades are
\* those of a single call at T on a fresh WaveState.
C25_CadenceIndependent ==
    hist.steady /\ wcall.outcome # "none" => PollOutcome(wave_state) = PollOutcome(SinglePass)

\* The same for sequences whose last call returns.
CadenceIndependentWhenReturned ==
    hist.steady /\ wcall.outcome = "ok" => PollOutcome(wave_state) = PollOutcome(SinglePass)

\* The last call got past the check of its placements.
Accepted ==
    /\ wcall.outcome # "none"
    /\ get_covered_cells_from_placements_error(wcall.player_placements,
                                               wcall.coverage_radius) = ""

\* What C26 says of the state after a call that ended in one of ended.
TriggeredPrefix(ended) ==
    /\ \A w \in 1..Len(wave_state.waves) :
          hist.triggered[w] = IF w <= wave_state.current_wave_index THEN 1 ELSE 0
    /\ Accepted /\ wcall.outcome \in ended
           /\ wave_state.current_wave_index < Len(wave_state.waves)
          => Get(wave_state.waves[wave_state.current_wave_index + 1], "t_plus_seconds", 0)
                > wcall.elapsed_seconds

\* C26: the triggered waves are a prefix of the wave list, and after
\* update_wave_state(e) the first untriggered wave, if any, has
\* t_plus_seconds > e (so a wave listed after a wave with a later trigger time
\* is held back).
C26_TriggeredPrefix ==
    TriggeredPrefix({"ok", "ValueError", "IndexError"})

\* The same for the calls that return.
TriggeredPrefixWhenReturned ==
    TriggeredPrefix({"ok"})

\* The elapsed time of the last call is at or past every wave's trigger time
\* and every cascade's trigger time.
PastEverything ==
    /\ \A w \in 1..Len(wave_state.waves) :
          wcall.elapsed_seconds >= Get(wave_state.waves[w], "t_plus_seconds", 0)
    /\ \A r \in RuleIds(wave_state.waves) : wcall.elapsed_seconds >= RuleTime(r)

\* What C27 says of the state after a call that ended in one of ended.
Drains(ended) ==
    Accepted /\ wcall.outcome \in ended =>
        /\ \A i \in 1..Len(wave_state.active_cascades) :
              wave_state.active_cascades[i].trigger_time > wcall.elapsed_seconds
        /\ PastEverything =>
              /\ wave_state.current_wave_index = Len(wave_state.waves)
              /\ get_wave_summary(wave_state).pending_waves = 0
              /\ get_wave_summary(wave_state).pending_cascades = 0
              /\ wave_state.active_cascades = <<>>

\* C27: a call whose elapsed time is at or past every wave's t_plus_seconds
\* plus every cascade delay leaves all waves triggered and no cascade pending,
\* and after every call each cascade still pending has a trigger time greater
\* than the elapsed time of that call.
C27_Drains ==
    Drains({"ok", "ValueError", "IndexError"})

\* The same for the calls that return.
DrainsWhenReturned ==
    Drains({"ok"})

(***************************************************************************)
(* Further properties of the game state machine (checked under GameSpec).  *)
(***************************************************************************)
PlacedCells(v) == {v.placements[i] : i \in 1..Len(v.placements)}

\* C28: in every reachable GameState the keys of the unit-type map are exactly
\* the cells of the placement list, each with one unit type, so the per-type
\* counts of the quota checks sum to the placement count of the capacity check.
C28_UnitTypesMatchPlacements ==
    LET v == Deep(cur)
    IN  /\ DOMAIN v.unit_types = PlacedCells(v)
        /\ \A c \in DOMAIN v.unit_types : v.unit_types[c] \in {"patrol", "ems"}
        /\ CountType(v.unit_types, "patrol") + CountType(v.unit_types, "ems")
              = Len(v.placements)

\* A cell removed from between two others, of both unit types.
C28_Witness ==
    LET v == Deep(cur)
    IN  /\ Succeeded("remove_placement")
        /\ Len(before.placements) = 3
        /\ before.placements[2] = call.cell_id
        /\ Len(v.placements) = 2
        /\ CountType(v.unit_types, "patrol") = 1
        /\ CountType(v.unit_types, "ems") = 1

UnusedQuota(v, t) ==
    CountType(v.unit_types, t) < (IF t = "patrol" THEN scenario.patrol_count
                                                  ELSE scenario.ems_count)

\* C29: a committed state holds exactly the patrol quota of patrol placements
\* and the EMS quota of EMS placements; an uncommitted state with fewer
\* placements than total_units has a unit type with unused quota, and
\* add_placement on any unoccupied cell is accepted for some unit type.
C29_QuotasMetAtCommit ==
    LET v == Deep(cur)
    IN  /\ v.committed =>
              /\ CountType(v.unit_types, "patrol") = scenario.patrol_count
              /\ CountType(v.unit_types, "ems") = scenario.ems_count
              /\ PlacedOfType(v, "patrol") = scenario.patrol_count
              /\ PlacedOfType(v, "ems") = scenario.ems_count
        /\ ~v.committed /\ Len(v.placements) < v.total_units =>
              /\ \E t \in {"patrol", "ems"} : UnusedQuota(v, t)
              /\ \A cell_id \in GameCells \ PlacedCells(v) :
                    \E t \in {"patrol", "ems"} :
                       /\ UnusedQuota(v, t)
                       /\ add_placement_error(cur, cell_id, t) = ""

\* A deployment of both unit types, completed after a removal and committed.
C29_Witness ==
    LET v == Deep(cur)
    IN  /\ Succeeded("commit")
        /\ v.committed
        /\ scenario.patrol_count = 2 /\ scenario.ems_count = 1
        /\ Len(v.placements) = 3
        /\ v.unit_types[v.placements[3]] = "patrol"
        /\ v.unit_types[v.placements[1]] = "ems"

(***************************************************************************)
(* optimize_ambulance_placement.py                                         *)
(*                                                                         *)
(* All points of the model lie on one meridian (lon = 0).  There           *)
(* a = sin^2(dlat / 2) in haversine_distance and the distance is           *)
(* R * |dlat|: distances and radii are counted in the distance of one unit *)
(* of latitude.  Latitudes are whole numbers of units and incidents sit at *)
(* multiples of LatStep, which makes every point of the candidate grid a   *)
(* whole number too.  A float is the fraction <<num, den>>.                *)
(***************************************************************************)
NumCandidates == 200

\* int(math.sqrt(n))
isqrt(n) == CHOOSE g \in 0..n : g * g <= n /\ (g + 1) * (g + 1) > n

\* The grid has isqrt(NumCandidates) - 1 intervals and a padding of 1/10.
LatStep == 10 * (isqrt(NumCandidates) - 1)

haversine_distance(lat1, lon1, lat2, lon2) == Abs(lat2 - lat1)

\* math.exp in fixed point: ExpScale * exp(-(x_num / x_den)) for
\* 0 <= x_num / x_den <= 2, by the first terms of its series.
ExpScale == 1000000

RECURSIVE exp_series(_, _, _, _)
exp_series(n, term, x_num, x_den) ==
    IF n > 14 \/ term = 0 THEN 0
    ELSE (IF n % 2 = 0 THEN term ELSE -term)
         + exp_series(n + 1, (term * x_num) \div (x_den * (n + 1)), x_num, x_den)

\* The denominator of the coverage values and scores of one call.
ScoreDen(max_radius, decay_type) ==
    IF decay_type = "linear" /\ max_radius > 0 THEN max_radius ELSE ExpScale

\* The exception distance_decay raises, "" when it returns.
distance_decay_error(distance, max_radius, decay_type) ==
    IF distance > max_radius THEN ""
    ELSE IF decay_type \in {"linear", "exponential"}
         THEN (IF max_radius = 0 THEN "ZeroDivisionError" ELSE "")
    ELSE "ValueError"

\* The numerator of the coverage, over ScoreDen(max_radius, decay_type).
distance_decay(distance, max_radius, decay_type) ==
    IF distance > max_radius THEN 0
    ELSE IF decay_type = "linear" THEN Max(0, max_radius - distance)
    ELSE exp_series(0, ExpScale, 2 * distance, max_radius)

\* The locations within the radius of an incident, as indices of the list.
in_range(incident, ambulance_locations, coverage_radius) ==
    {j \in 1..Len(ambulance_locations) :
        haversine_distance(incident.lat, incident.lon,
                           ambulance_locations[j][1], ambulance_locations[j][2])
            <= coverage_radius}

calculate_coverage_score_error(ambulance_locations, predicted_incidents, coverage_radius, decay_function) ==
    LET err(i, j) ==
            distance_decay_error(
                haversine_distance(predicted_incidents[i].lat, predicted_incidents[i].lon,
                                   ambulance_locations[j][1], ambulance_locations[j][2]),
                coverage_radius, decay_function)
        failing == {p \in (1..Len(predicted_incidents)) \X (1..Len(ambulance_locations)) :
                       /\ p[2] \in in_range(predicted_incidents[p[1]], ambulance_locations,
                                            coverage_radius)
                       /\ err(p[1], p[2]) # ""}
    IN  IF failing = {} THEN ""
        ELSE LET first == CHOOSE p \in failing :
                             \A q \in failing : p[1] < q[1] \/ (p[1] = q[1] /\ p[2] <= q[2])
             IN  err(first[1], first[2])

\* The inner loop of calculate_coverage_score: the best coverage of one incident.
best_coverage(incident, ambulance_locations, coverage_radius, decay_function) ==
    LET near == in_range(incident, ambulance_locations, coverage_radius)
        coverage(j) ==
            distance_decay(haversine_distance(incident.lat, incident.lon,
                                              ambulance_locations[j][1],
                                              ambulance_locations[j][2]),
                           coverage_radius, decay_function)
    IN  IF near = {} THEN 0
        ELSE coverage(CHOOSE j \in near : \A k \in near : coverage(k) <= coverage(j))

calculate_coverage_score(ambulance_locations, predicted_incidents, coverage_radius, decay_function) ==
    LET error == calculate_coverage_score_error(ambulance_locations, predicted_incidents,
                                                coverage_radius, decay_function)
        term == [i \in 1..Len(predicted_incidents) |->
                    predicted_incidents[i].weight
                    * best_coverage(predicted_incidents[i], ambulance_locations,
                                    coverage_radius, decay_function)]
    IN  IF error # "" THEN [error |-> error, value |-> <<0, 1>>]
        ELSE [error |-> "",
              value |-> <<SetSum(term, 1..Len(predicted_incidents)),
                          ScoreDen(coverage_radius, decay_function)>>]

get_bounding_box_error(predicted_incidents) ==
    IF predicted_incidents = <<>> THEN "ValueError" ELSE ""

get_bounding_box(predicted_incidents) ==
    LET lats == {predicted_incidents[i].lat : i \in 1..Len(predicted_incidents)}
        lons == {predicted_incidents[i].lon : i \in 1..Len(predicted_incidents)}
    IN  [min_lat |-> CHOOSE x \in lats : \A y \in lats : x <= y,
         max_lat |-> CHOOSE x \in lats : \A y \in lats : x >= y,
         min_lon |-> CHOOSE x \in lons : \A y \in lons : x <= y,
         max_lon |-> CHOOSE x \in lons : \A y \in lons : x >= y]

\* The grid of candidates over the bounding box widened by a tenth of its
\* range on each side, row by row; n is the 1-based position in the list.
generate_candidate_locations(predicted_incidents, num_candidates) ==
    LET box == get_bounding_box(predicted_incidents)
        lat_range == box.max_lat - box.min_lat
        lon_range == box.max_lon - box.min_lon
        min_lat == box.min_lat - lat_range \div 10
        max_lat == box.max_lat + lat_range \div 10
        min_lon == box.min_lon - lon_range \div 10
        max_lon == box.max_lon + lon_range \div 10
        grid_size == isqrt(num_candidates)
        at(lo, hi, i) == IF grid_size > 1 THEN lo + ((hi - lo) * i) \div (grid_size - 1)
                         ELSE lo + (hi - lo) \div 2
    IN  [n \in 1..(grid_size * grid_size) |->
            <<at(min_lat, max_lat, (n - 1) \div grid_size),
              at(min_lon, max_lon, (n - 1) % grid_size)>>]

\* The first position of the list that holds one of cells, 0 when none does.
FirstAt(candidates, cells) ==
    LET at == {n \in 1..Len(candidates) : candidates[n] \in cells}
    IN  IF at = {} THEN 0 ELSE CHOOSE n \in at : \A m \in at : n <= m

\* Each distinct candidate with the numerator of the score of the selection
\* it is appended to (the score depends on the candidate's coordinates only,
\* and the scores of one call have the same denominator).
candidate_scores(candidates, ambulance_locations, predicted_incidents, coverage_radius, decay_function) ==
    {<<c, calculate_coverage_score(Append(ambulance_locations, c), predicted_incidents,
                                   coverage_radius, decay_function).value[1]>> :
        c \in {candidates[n] : n \in 1..Len(candidates)}}

\* The inner loop of _optimize_greedy: the position in candidates of
\* best_location, 0 for None.  best_score starts at -1.0 and a candidate
\* replaces the best one only with a greater score, so the first of the
\* candidates with the highest score is taken, if that score is above -1.0.
best_candidate(candidates, ambulance_locations, predicted_incidents, coverage_radius, decay_function) ==
    LET scored == candidate_scores(candidates, ambulance_locations, predicted_incidents,
                                   coverage_radius, decay_function)
        best_score == -1 * ScoreDen(coverage_radius, decay_function)
    IN  FirstAt(candidates,
                {p[1] : p \in {q \in scored : q[2] > best_score
                                              /\ \A o \in scored : o[2] <= q[2]}})

\* The exception the inner loop raises: that of the first candidate whose score raises.
best_candidate_error(candidates, ambulance_locations, predicted_incidents, coverage_radius, decay_function) ==
    LET error(c) == calculate_coverage_score_error(Append(ambulance_locations, c),
                                                   predicted_incidents, coverage_radius,
                                                   decay_function)
        first == FirstAt(candidates,
                         {c \in {candidates[n] : n \in 1..Len(candidates)} : error(c) # ""})
    IN  IF first = 0 THEN "" ELSE error(candidates[first])

\* The rounds of _optimize_greedy that are left.
RECURSIVE greedy_rounds(_, _, _, _, _, _)
greedy_rounds(rounds, candidates, ambulance_locations, predicted_incidents, coverage_radius, decay_function) ==
    IF rounds <= 0 THEN [error |-> "", locations |-> ambulance_locations]
    ELSE LET error == best_candidate_error(candidates, ambulance_locations,
                                           predicted_incidents, coverage_radius,
                                           decay_function)
             best == best_candidate(candidates, ambulance_locations, predicted_incidents,
                                    coverage_radius, decay_function)
         IN  IF error # "" THEN [error |-> error, locations |-> <<>>]
             ELSE greedy_rounds(rounds - 1, candidates,
                                IF best # 0 THEN Append(ambulance_locations, candidates[best])
                                ELSE ambulance_locations,
                                predicted_incidents, coverage_radius, decay_function)

\* [{"lat": lat, "lon": lon} for lat, lon in locations]
as_dicts(locations) == [n \in 1..Len(locations) |-> [lat |-> locations[n][1], lon |-> locations[n][2]]]

_optimize_greedy(predicted_incidents, num_ambulances, coverage_radius, decay_function) ==
    IF get_bounding_box_error(predicted_incidents) # ""
    THEN [error |-> get_bounding_box_error(predicted_incidents), locations |-> <<>>]
    ELSE LET run == greedy_rounds(num_ambulances,
                                  generate_candidate_locations(predicted_incidents, NumCandidates),
                                  <<>>, predicted_incidents, coverage_radius, decay_function)
         IN  [error |-> run.error, locations |-> as_dicts(run.locations)]

\* random.uniform over the bounding box: the model draws its ends.
BoxPoints(predicted_incidents) ==
    LET box == get_bounding_box(predicted_incidents)
    IN  {box.min_lat, box.max_lat} \X {box.min_lon, box.max_lon}

\* The outcomes of _optimize_simulated_annealing, one for each run of the
\* random generator: the best placement it has scored, or the exception of a
\* placement whose score raises; with no ambulance to move,
\* random.randint(0, num_ambulances - 1) raises ValueError.
_optimize_simulated_annealing(predicted_incidents, num_ambulances, coverage_radius, decay_function) ==
    IF get_bounding_box_error(predicted_incidents) # ""
    THEN {[error |-> get_bounding_box_error(predicted_incidents), locations |-> <<>>]}
    ELSE IF num_ambulances <= 0 THEN {[error |-> "ValueError", locations |-> <<>>]}
    ELSE LET placements == [1..num_ambulances -> BoxPoints(predicted_incidents)]
             error(locations) ==
                 calculate_coverage_score_error(locations, predicted_incidents,
                                                coverage_radius, decay_function)
         IN  {[error |-> error(locations),
               locations |-> IF error(locations) # "" THEN <<>> ELSE as_dicts(locations)] :
                  locations \in placements}

\* (variant of optimize_placement: the method is looked at before the incidents)
optimize_placement_method_first(predicted_incidents, num_ambulances, coverage_radius, decay_function, method) ==
    IF method = "greedy"
    THEN {_optimize_greedy(predicted_incidents, num_ambulances, coverage_radius,
                           decay_function)}
    ELSE IF method = "simulated_annealing"
    THEN _optimize_simulated_annealing(predicted_incidents, num_ambulances,
                                       coverage_radius, decay_function)
    ELSE {[error |-> "ValueError", locations |-> <<>>]}

\* The outcomes of optimize_placement (one, but for simulated annealing).
optimize_placement(predicted_incidents, num_ambulances, coverage_radius, decay_function, method) ==
    IF predicted_incidents = <<>> THEN {[error |-> "", locations |-> <<>>]}
    ELSE IF method = "greedy"
    THEN {_optimize_greedy(predicted_incidents, num_ambulances, coverage_radius,
                           decay_function)}
    ELSE IF method = "simulated_annealing"
    THEN _optimize_simulated_annealing(predicted_incidents, num_ambulances,
                                       coverage_radius, decay_function)
    ELSE {[error |-> "ValueError", locations |-> <<>>]}

(***************************************************************************)
(* OptSpec: the optimizer applied to arguments drawn by the initial state. *)
(***************************************************************************)
Incident(lat, weight) == [lat |-> lat, lon |-> 0, weight |-> weight]

OptIncidentArgs ==
    UNION {[1..n -> {Incident(0, 2), Incident(0, -1), Incident(LatStep, 1)}] :
              n \in 0..MaxIncidents}

OptLocationArgs ==
    UNION {[1..n -> {<<0, 0>>, <<LatStep \div 2, 0>>, <<LatStep, 0>>}] :
              n \in 0..MaxAmbulances}

OptRadiusArgs == {-1, 0, LatStep \div 2, LatStep}

apply_calculate_coverage_score ==
    \E r \in {calculate_coverage_score(score_in.ambulance_locations,
                                       score_in.predicted_incidents,
                                       score_in.coverage_radius,
                                       score_in.decay_function)} :
        Apply("calculate_coverage_score", r.error, r.value)

apply_generate_candidate_locations ==
    Apply("generate_candidate_locations",
          get_bounding_box_error(score_in.predicted_incidents),
          generate_candidate_locations(score_in.predicted_incidents, NumCandidates))

apply_optimize_greedy ==
    \E r \in {_optimize_greedy(score_in.predicted_incidents, score_in.num_ambulances,
                               score_in.coverage_radius, score_in.decay_function)} :
        Apply("_optimize_greedy", r.error, r.locations)

apply_optimize_placement ==
    \E r \in optimize_placement(score_in.predicted_incidents, score_in.num_ambulances,
                                score_in.coverage_radius, score_in.decay_function,
                                score_in.method) :
        Apply("optimize_placement", r.error, r.locations)

\* The calls of calculate_coverage_score draw the locations, those of the
\* optimizer the number of ambulances and the method.
OptInit ==
    /\ score_in \in
          [predicted_incidents : OptIncidentArgs, ambulance_locations : OptLocationArgs,
           num_ambulances : {0}, coverage_radius : OptRadiusArgs,
           decay_function : {"linear", "exponential", "cubic"}, method : {"greedy"}]
          \cup
          [predicted_incidents : OptIncidentArgs, ambulance_locations : {<<>>},
           num_ambulances : 0..MaxAmbulances, coverage_radius : OptRadiusArgs,
           decay_function : {"linear", "exponential", "cubic"},
           method : {"greedy", "simulated_annealing", "genetic"}]
    /\ score_out = ScoreResult("none", "none", 0)
    /\ GameIdle
    /\ WaveIdle

OptNext ==
    \/ apply_calculate_coverage_score
    \/ apply_generate_candidate_locations
    \/ apply_optimize_greedy
    \/ apply_optimize_placement

OptSpec == OptInit /\ [][OptNext]_vars

(***************************************************************************)
(* Properties of the optimizer (checked under OptSpec).                    *)
(***************************************************************************)
Applied(op) == score_out.op = op

\* calculate_coverage_score of some locations with the arguments of the state.
ScoreOf(ambulance_locations) ==
    calculate_coverage_score(ambulance_locations, score_in.predicted_incidents,
                             score_in.coverage_radius, score_in.decay_function)

KnownDecay == score_in.decay_function \in {"linear", "exponential"}

\* Weights and a radius for which a score is the sum of non-negative terms.
NonNegativeWeights ==
    \A i \in 1..Len(score_in.predicted_incidents) : score_in.predicted_incidents[i].weight >= 0

\* What C22 says of a call whose location list is L with x appended.
ScoreMonotonic ==
    LET locations == score_in.ambulance_locations
        L == SubSeq(locations, 1, Len(locations) - 1)
    IN  Applied("calculate_coverage_score") /\ locations # <<>> /\ KnownDecay
           /\ ScoreOf(L).error = ""
          => /\ score_out.outcome = "ok"
             /\ score_out.value[2] = ScoreOf(L).value[2]
             /\ score_out.value[1] >= ScoreOf(L).value[1]

\* C22: the score of a location list L with a location x appended is at least
\* the score of L, for every incident list, radius and decay function.
C22_ScoreMonotonic ==
    ScoreMonotonic

\* The same for weights that are not negative and a radius other than 0.
ScoreMonotonicNonNegative ==
    NonNegativeWeights /\ score_in.coverage_radius # 0 => ScoreMonotonic

\* C23: with an empty incident list optimize_placement returns an empty
\* location list, whatever the unit count, radius, decay function and method,
\* and calculate_coverage_score of any locations is 0.
C23_EmptyIncidents ==
    score_in.predicted_incidents = <<>> =>
        /\ Applied("optimize_placement") =>
              score_out.outcome = "ok" /\ score_out.value = <<>>
        /\ Applied("calculate_coverage_score") =>
              score_out.outcome = "ok" /\ IsNumber(score_out.value, 0)

\* No incident, two units asked for, radius 0 and names that are neither a
\* decay function nor a method.
C23_Witness ==
    /\ Applied("optimize_placement")
    /\ score_in.predicted_incidents = <<>>
    /\ score_in.num_ambulances = 2
    /\ score_in.coverage_radius = 0
    /\ score_in.decay_function = "cubic"
    /\ score_in.method = "genetic"
    /\ score_out.outcome = "ok"

\* The call of the state is a run of the greedy optimizer.
GreedyRun ==
    \/ Applied("_optimize_greedy")
    \/ Applied("optimize_placement") /\ score_in.method = "greedy"

\* The first of the candidates whose addition to the selection gives the
\* highest score.
HighestFirst(candidates, selection) ==
    LET scored == candidate_scores(candidates, selection, score_in.predicted_incidents,
                                   score_in.coverage_radius, score_in.decay_function)
    IN  candidates[FirstAt(candidates,
                           {p[1] : p \in {q \in scored : \A o \in scored : o[2] <= q[2]}})]

AsTuples(locations) == [n \in 1..Len(locations) |-> <<locations[n].lat, locations[n].lon>>]

\* What C30 says of a run of the greedy optimizer.
GreedyRounds ==
    LET candidates == generate_candidate_locations(score_in.predicted_incidents, NumCandidates)
        selected == AsTuples(score_out.value)
        after(n) == SubSeq(selected, 1, n)
    IN  GreedyRun /\ score_in.predicted_incidents # <<>> /\ KnownDecay =>
          /\ score_out.outcome = "ok"
          /\ Len(score_out.value) = score_in.num_ambulances
          /\ \A n \in 1..Len(selected) :
                /\ selected[n] = HighestFirst(candidates, after(n - 1))
                /\ ScoreOf(after(n)).value[1] >= ScoreOf(after(n - 1)).value[1]
          /\ Cardinality(optimize_placement(score_in.predicted_incidents,
                                            score_in.num_ambulances,
                                            score_in.coverage_radius,
                                            score_in.decay_function, "greedy")) = 1

\* C30: for a non-empty incident list the greedy optimizer returns exactly k
\* locations, each the first candidate of the grid whose addition gives the
\* highest score of the selection so far, the score of the selection never
\* decreases from one round to the next, and the result is a function of the
\* arguments.
C30_GreedyRounds ==
    GreedyRounds

\* The same for weights that are not negative and a radius other than 0.
GreedyRoundsNonNegative ==
    NonNegativeWeights /\ score_in.coverage_radius # 0 => GreedyRounds

====
